---- MODULE Spec2Model ----
(***************************************************************************)
(* A model of the client-side video assembly of lapse                      *)
(* (apps/web/src/client/videoProcessing.ts): mergeVideoSessions groups the *)
(* recorded chunks into per-session streams, videoConcat probes every      *)
(* stream, negotiates a codec, decides between remuxing and transcoding,   *)
(* rebases every unit onto one output timeline and finalizes the output.   *)
(*                                                                         *)
(* What the media library (mediabunny) answers at each await is the        *)
(* environment's choice, drawn from small sets when the program asks.      *)
(* Output times are exact rationals: timeScale is TimeScaleNum /           *)
(* TimeScaleDen, and every output timestamp, duration and offset is kept   *)
(* as its numerator over TimeScaleDen.                                     *)
(***************************************************************************)
EXTENDS Integers, Sequences, FiniteSets, TLC

\* ------------------------------------------------------------------ bounds

\* At most this many streams are handed to videoConcat.
MaxSessions == 2
\* At most this many units (packets or samples) are yielded in one run.
MaxUnits == 4
\* At most this many units are yielded in one run of the two-session scenario.
MaxScenarioUnits == 20
\* At most this many snapshot timestamps are submitted to timelapse.commit.
MaxSnapshots == 101
\* At most this many times are heartbeats pushed to Hackatime.
MaxPushes == 3
\* At most this many chunks are stored in the timelapse handed to mergeVideoSessions.
MaxChunks == 3

\* --------------------------------------------------------------- constants

TIMELAPSE_FRAME_LENGTH_MS == 2500
TIMELAPSE_FPS == 24
THUMBNAIL_SIZE == 640
\* The size of one snapshot.createMany batch of timelapse.commit.
SNAPSHOT_BATCH_SIZE == 100

\* timeScale = (1000 / TIMELAPSE_FRAME_LENGTH_MS) / TIMELAPSE_FPS, as a fraction.
TimeScaleNum == 1000
TimeScaleDen == TIMELAPSE_FRAME_LENGTH_MS * TIMELAPSE_FPS

\* x * timeScale, as a numerator over TimeScaleDen.
Scaled(x) == x * TimeScaleNum

\* ------------------------------------------------------------------- state

VARIABLES
    pc,                  \* where videoConcat is: idle, probe, negotiate, classify,
                         \* session, units, finalize, done, failed
    error,               \* the error videoConcat threw ("none" while it has not)
    inputs,              \* inputs[i]: "open" or "disposed", one per stream
    out,                 \* the mediabunny.Output: none, created, started, finalized
    probed,              \* probed[i]: what getPrimaryVideoTrack answered for input i
    inputPrimaryTracks,  \* the non-null tracks, in input order
    videoCodec,          \* the negotiated encoder codec ("unset", "null" or a codec)
    canRemux,            \* <<>> before line 111, then <<b>> for the boolean b
    source,              \* the output's video source ("none" before it is created)
    decoderConfigs,      \* what getDecoderConfig answered, per session begun
    cur,                 \* index in inputPrimaryTracks of the session being processed
    globalTimeOffset,
    localFirstTimestamp, \* <<>> for null, <<t>> otherwise
    localLastTimestamp,
    yielded,             \* yielded[k]: the units session k's sink has yielded so far
    output,              \* the units added to the source, in order
    buffer,              \* bufTarget.buffer: unset, null, data
    mpc,                 \* where mergeVideoSessions is: idle, concat, done, failed
    merror,              \* the error mergeVideoSessions threw ("none" while it has not)
    chunks,              \* timelapse.chunks, in stored order
    segmented,           \* the per-session groups of line 413
    streams,             \* the blobs handed to videoConcat: the chunks' data, per session
    tpc,                 \* where videoGenerateThumbnail is: idle, track, canvases,
                         \* encode, fallbackLoad, fallbackEncode, black, done
    thumbVideo,          \* the finished video's display size and the pixel ratio
    tiers,               \* the thumbnail tiers started so far, with their outcomes
    thumbInput,          \* makeThumbnail's mediabunny.Input: none, open, disposed
    thumbCanvas,         \* the canvas makeThumbnail encodes ("none" before it has one)
    fallbackHandles,     \* makeFallbackThumbnail's object URL, video and canvas
    thumbnail,           \* what videoGenerateThumbnail did: <<>> while it runs, then
                         \* <<r>> for the blob it returned or the error it threw
    nodeEnv,             \* process.env.NODE_ENV of the server ("unread" until it is read)
    knownDevices,        \* database.knownDevice: device id -> row
    uploadTokens,        \* database.uploadToken: token id -> row
    draftTimelapses,     \* database.draftTimelapse: draft id -> row
    timelapses,          \* database.timelapse: timelapse id -> row
    snapshots,           \* database.snapshot: the rows, in insertion order
    s3,                  \* the objects in the buckets: a set of [bucket, key]
    s3Puts,              \* how many times POST /api/upload wrote a token's object
    response,            \* what the last tRPC call answered
    uploads,             \* the POST /api/upload requests in flight, per connection
    issued,              \* the ids crypto.randomUUID() and the database have given out
    committing,          \* the timelapse.commit call in flight, at its awaits
    syncs,               \* the timelapse.syncWithHackatime calls in flight, per connection
    heartbeatPushes,     \* the calls of hackatime.pushHeartbeats so far, in order
    heartbeatIds,        \* snapshot.heartbeatId per timelapse: the push that set it
    oauthCookie,         \* the browser's hackatime-oauth cookie (<<>> when it has none)
    oauthUsers,          \* database.user, as far as the OAuth callback writes it
    oauth                \* the last GET /api/auth-hackatime: the request and its outcome

concatVars == <<pc, error, inputs, out, probed, inputPrimaryTracks, videoCodec,
                canRemux, source, decoderConfigs, cur, globalTimeOffset,
                localFirstTimestamp, localLastTimestamp, yielded, output, buffer>>

mergeVars == <<mpc, merror, chunks, segmented, streams>>

thumbVars == <<tpc, thumbVideo, tiers, thumbInput, thumbCanvas, fallbackHandles,
               thumbnail>>

serverVars == <<nodeEnv, knownDevices, uploadTokens, draftTimelapses, timelapses,
                snapshots, s3, s3Puts, response, uploads, issued>>

\* The calls that are followed through their awaits.
flightVars == <<committing, syncs, heartbeatPushes, heartbeatIds>>

authVars == <<oauthCookie, oauthUsers, oauth>>

vars == <<concatVars, mergeVars, thumbVars, serverVars, flightVars, authVars>>

\* What each function leaves alone.
outsideConcat == <<mergeVars, thumbVars, serverVars, flightVars, authVars>>
outsideMerge == <<concatVars, thumbVars, serverVars, flightVars, authVars>>
outsideThumb == <<concatVars, mergeVars, serverVars, flightVars, authVars>>
outsideServer == <<concatVars, mergeVars, thumbVars, flightVars, authVars>>
outsideFlight == <<concatVars, mergeVars, thumbVars, authVars>>
outsideAuth == <<concatVars, mergeVars, thumbVars, serverVars, flightVars>>

\* ------------------------------------------------------------ environment

\* A primary video track, as far as videoConcat reads it.
BaseTrack ==
    [codec |-> "avc", codedWidth |-> 1920, codedHeight |-> 1080,
     displayWidth |-> 1920, displayHeight |-> 1080, canDecode |-> TRUE]

\* Tracks that differ from BaseTrack in exactly one of the five compared fields.
VariantTracks ==
    { [BaseTrack EXCEPT !.codec = "vp9"],
      [BaseTrack EXCEPT !.codedWidth = 1280],
      [BaseTrack EXCEPT !.codedHeight = 720],
      [BaseTrack EXCEPT !.displayWidth = 1280],
      [BaseTrack EXCEPT !.displayHeight = 720] }

\* A track of BaseTrack's codec and geometry that the environment cannot decode.
UndecodableTrack == [BaseTrack EXCEPT !.canDecode = FALSE]

\* What getPrimaryVideoTrack may answer: <<>> is null.
PathTracks ==
    {<<>>} \cup { <<t>> : t \in {BaseTrack, UndecodableTrack} \cup VariantTracks }
TimingTracks == {<<>>, <<BaseTrack>>, <<[BaseTrack EXCEPT !.codedWidth = 1280]>>}

\* What getFirstEncodableVideoCodec may answer.
EncodableCodecs == {"null", "vp9"}

\* What a sink may yield next: a unit whose timestamp is the previous unit's (0 at
\* the start of the stream) plus delta source ticks, so timestamps never decrease
\* inside a session, and whose duration is given.
PathUnits == { [delta |-> 1, duration |-> 1], [delta |-> 1, duration |-> 0] }
TimingUnits ==
    { [delta |-> 1, duration |-> 1], [delta |-> 0, duration |-> 1],
      [delta |-> 1, duration |-> 0] }
\* Units one frame length of source time apart, each as long.
ScenarioUnits ==
    { [delta |-> TIMELAPSE_FRAME_LENGTH_MS, duration |-> TIMELAPSE_FRAME_LENGTH_MS] }

\* --------------------------------------------------------------- videoConcat

\* A filter that stops at the first null track instead of passing over it.
InputPrimaryTracksUntilNull(p) ==
    LET nulls == { i \in 1..Len(p) : p[i] = <<>> }
        stop == IF nulls = {} THEN Len(p) + 1
                ELSE CHOOSE i \in nulls : \A j \in nulls : i <= j
    IN  [k \in 1..(stop - 1) |-> [input |-> k, track |-> p[k][1]]]

\* Lines 77-84: the tracks that are not null, in input order, each with its input.
InputPrimaryTracks(p) ==
    LET idx == SelectSeq([i \in 1..Len(p) |-> i], LAMBDA i : p[i] # <<>>)
    IN  [k \in 1..Len(idx) |-> [input |-> idx[k], track |-> p[idx[k]][1]]]

\* A comparison that leaves the display height out.
CanRemuxWithoutDisplayHeight(tracks) ==
    \A k \in 1..Len(tracks) :
        /\ tracks[1].track.codec = tracks[k].track.codec
        /\ tracks[1].track.codedWidth = tracks[k].track.codedWidth
        /\ tracks[1].track.codedHeight = tracks[k].track.codedHeight
        /\ tracks[1].track.displayWidth = tracks[k].track.displayWidth

\* Lines 111-119.
CanRemux(tracks) ==
    \A k \in 1..Len(tracks) :
        /\ tracks[1].track.codec = tracks[k].track.codec
        /\ tracks[1].track.codedWidth = tracks[k].track.codedWidth
        /\ tracks[1].track.codedHeight = tracks[k].track.codedHeight
        /\ tracks[1].track.displayWidth = tracks[k].track.displayWidth
        /\ tracks[1].track.displayHeight = tracks[k].track.displayHeight

\* Lines 123-132.
MakeSource(remux, tracks, codec) ==
    IF remux
    THEN [kind |-> "EncodedVideoPacketSource", codec |-> tracks[1].track.codec]
    ELSE [kind |-> "VideoSampleSource", codec |-> codec,
          sizeChangeBehavior |-> "contain"]

\* A loop that skips nothing.
IsSkippedNever(unit) == FALSE

\* Lines 158 and 191.
IsSkipped(unit) == unit.duration = 0

\* A rebasing that forgets to scale the relative timestamp.
OutputTimestampUnscaled(relTimestamp, offset) == relTimestamp + offset

\* Lines 172 and 203.
OutputTimestamp(relTimestamp, offset) == Scaled(relTimestamp) + offset

\* Lines 173 and 204.
OutputDuration(unit) == Scaled(unit.duration)

\* An offset that is set to the session's span instead of advanced by it.
NextOffsetNotAccumulated(offset, first, last) ==
    IF first # <<>> THEN Scaled(last - first[1]) ELSE offset

\* Lines 181-183 and 211-213.
NextOffset(offset, first, last) ==
    IF first # <<>> THEN offset + Scaled(last - first[1]) ELSE offset

TotalYielded == IF yielded = <<>> THEN 0 ELSE
    LET RECURSIVE Sum(_)
        Sum(k) == IF k = 0 THEN 0 ELSE Len(yielded[k]) + Sum(k - 1)
    IN  Sum(Len(yielded))

\* A throw: videoConcat has no handler, so the run ends where it is.
Throw(kind) ==
    /\ pc' = "failed"
    /\ error' = kind

\* Lines 56-75: the call, with n streams.
VideoConcat ==
    /\ pc = "idle"
    /\ \E n \in 0..MaxSessions :
        /\ inputs' = [i \in 1..n |-> "open"]
        /\ IF n > 0
           THEN /\ pc' = "probe"
                /\ out' = "created"
                /\ error' = error
           ELSE /\ Throw("NoInputs")
                /\ out' = out
    /\ UNCHANGED <<probed, inputPrimaryTracks, videoCodec, canRemux, source,
                   decoderConfigs, cur, globalTimeOffset, localFirstTimestamp,
                   localLastTimestamp, yielded, output, buffer>>
    /\ UNCHANGED outsideConcat

\* Lines 77-86: every input answers with its primary video track or null, or one
\* of them cannot be read and the Promise.all rejects.
Probe(trackSet) ==
    /\ pc = "probe"
    /\ \/ \E p \in [1..Len(inputs) -> trackSet] :
            /\ probed' = p
            /\ inputPrimaryTracks' = InputPrimaryTracks(p)
            /\ yielded' = [k \in 1..Len(InputPrimaryTracks(p)) |-> <<>>]
            /\ IF Len(InputPrimaryTracks(p)) # 0
               THEN pc' = "negotiate" /\ error' = error
               ELSE Throw("NoUsableSessions")
       \/ /\ Throw("ProbeFailed")
          /\ UNCHANGED <<probed, inputPrimaryTracks, yielded>>
    /\ UNCHANGED <<inputs, out, videoCodec, canRemux, source, decoderConfigs, cur,
                   globalTimeOffset, localFirstTimestamp, localLastTimestamp,
                   output, buffer>>
    /\ UNCHANGED outsideConcat

\* A test that lets a run go on without a codec.
NoCodecNever(codec) == FALSE

\* Line 101: if (!videoCodec).
NoCodec(codec) == codec = "null"

\* Lines 88-106.
Negotiate ==
    /\ pc = "negotiate"
    /\ \E c \in EncodableCodecs :
        /\ videoCodec' = c
        /\ IF NoCodec(c)
           THEN Throw("NoEncodableCodec")
           ELSE pc' = "classify" /\ error' = error
    /\ UNCHANGED <<inputs, out, probed, inputPrimaryTracks, canRemux, source,
                   decoderConfigs, cur, globalTimeOffset, localFirstTimestamp,
                   localLastTimestamp, yielded, output, buffer>>
    /\ UNCHANGED outsideConcat

\* Lines 108-141: the decision, the source, the track, out.start().
Classify ==
    /\ pc = "classify"
    /\ canRemux' = <<CanRemux(inputPrimaryTracks)>>
    /\ source' = MakeSource(CanRemux(inputPrimaryTracks), inputPrimaryTracks, videoCodec)
    /\ \/ /\ out' = "started"
          /\ pc' = "session"
          /\ error' = error
       \/ /\ Throw("StartFailed")
          /\ out' = out
    /\ globalTimeOffset' = 0
    /\ cur' = 1
    /\ UNCHANGED <<inputs, probed, inputPrimaryTracks, videoCodec, decoderConfigs,
                   localFirstTimestamp, localLastTimestamp, yielded, output, buffer>>
    /\ UNCHANGED outsideConcat

\* Lines 142-150: the head of the loop over inputPrimaryTracks.
BeginSession ==
    /\ pc = "session"
    /\ \E cfg \in {"null", "config"} :
        /\ decoderConfigs' = Append(decoderConfigs, cfg)
        /\ IF cfg = "null"
           THEN Throw("NoDecoderConfig")
           ELSE pc' = "units" /\ error' = error
    /\ localFirstTimestamp' = <<>>
    /\ localLastTimestamp' = 0
    /\ UNCHANGED <<inputs, out, probed, inputPrimaryTracks, videoCodec, canRemux,
                   source, cur, globalTimeOffset, yielded, output, buffer>>
    /\ UNCHANGED outsideConcat

\* The sink of the current session can yield: an EncodedPacketSink reads packets
\* without decoding, a VideoSampleSink needs a decoder for the track.
SinkWorks == canRemux[1] \/ inputPrimaryTracks[cur].track.canDecode

\* Lines 158-166 and 191-199: localFirstTimestamp after the iteration on unit.
LocalFirstAfter(first, unit) ==
    IF IsSkipped(unit) THEN first
    ELSE IF first = <<>> THEN <<unit.timestamp>> ELSE first

\* A loop body that records the last timestamp before it tests the duration.
LocalLastBeforeSkip(last, unit) == unit.timestamp

\* Lines 158-161, 178 and 191-194, 208: localLastTimestamp after the iteration.
LocalLastAfter(last, unit) ==
    IF IsSkipped(unit) THEN last ELSE unit.timestamp

\* Lines 168-176 and 201-206: the unit added to the source.
Rebased(unit, first, offset, session, remux) ==
    [timestamp |-> OutputTimestamp(unit.timestamp - first[1], offset),
     duration |-> OutputDuration(unit),
     session |-> session,
     origTimestamp |-> unit.timestamp,
     via |-> IF remux THEN "EncodedPacketSink" ELSE "VideoSampleSink"]

\* Lines 157-179 and 190-209: one iteration, on the unit the sink yields.
NextUnit(shapes, limit) ==
    /\ pc = "units"
    /\ SinkWorks
    /\ TotalYielded < limit
    /\ \E shape \in shapes :
        LET prev == IF yielded[cur] = <<>> THEN 0
                    ELSE yielded[cur][Len(yielded[cur])].timestamp
            unit == [timestamp |-> prev + shape.delta, duration |-> shape.duration]
        IN  /\ yielded' = [yielded EXCEPT ![cur] = Append(@, unit)]
            /\ localFirstTimestamp' = LocalFirstAfter(localFirstTimestamp, unit)
            /\ localLastTimestamp' = LocalLastAfter(localLastTimestamp, unit)
            /\ output' =
                  IF IsSkipped(unit) THEN output
                  ELSE Append(output,
                           Rebased(unit, LocalFirstAfter(localFirstTimestamp, unit),
                                   globalTimeOffset, cur, canRemux[1]))
    /\ UNCHANGED <<pc, error, inputs, out, probed, inputPrimaryTracks, videoCodec,
                   canRemux, source, decoderConfigs, cur, globalTimeOffset, buffer>>
    /\ UNCHANGED outsideConcat

\* Lines 157, 170, 190, 206: reading the next unit or adding it to the source
\* throws; the sample sink of a track that cannot be decoded can do nothing else.
UnitFails ==
    /\ pc = "units"
    /\ Throw(IF SinkWorks THEN "UnitFailed" ELSE "CannotDecode")
    /\ UNCHANGED <<inputs, out, probed, inputPrimaryTracks, videoCodec, canRemux,
                   source, decoderConfigs, cur, globalTimeOffset,
                   localFirstTimestamp, localLastTimestamp, yielded, output, buffer>>
    /\ UNCHANGED outsideConcat

\* Lines 181-183 and 211-213, then the next turn of the loop of line 142.
EndOfUnits ==
    /\ pc = "units"
    /\ SinkWorks
    /\ globalTimeOffset' =
           NextOffset(globalTimeOffset, localFirstTimestamp, localLastTimestamp)
    /\ cur' = cur + 1
    /\ pc' = IF cur + 1 > Len(inputPrimaryTracks) THEN "finalize" ELSE "session"
    /\ UNCHANGED <<error, inputs, out, probed, inputPrimaryTracks, videoCodec,
                   canRemux, source, decoderConfigs, localFirstTimestamp,
                   localLastTimestamp, yielded, output, buffer>>
    /\ UNCHANGED outsideConcat

\* Lines 217-225.
Finalize ==
    /\ pc = "finalize"
    /\ \/ /\ Throw("FinalizeFailed")
          /\ UNCHANGED <<inputs, out, buffer>>
       \/ /\ out' = "finalized"
          /\ inputs' = [i \in 1..Len(inputs) |-> "disposed"]
          /\ \/ buffer' = "null" /\ Throw("BufferNull")
             \/ buffer' = "data" /\ pc' = "done" /\ error' = error
    /\ UNCHANGED <<probed, inputPrimaryTracks, videoCodec, canRemux, source,
                   decoderConfigs, cur, globalTimeOffset, localFirstTimestamp,
                   localLastTimestamp, yielded, output>>
    /\ UNCHANGED outsideConcat

InitConcat ==
    /\ pc = "idle"
    /\ error = "none"
    /\ inputs = <<>>
    /\ out = "none"
    /\ probed = <<>>
    /\ inputPrimaryTracks = <<>>
    /\ videoCodec = "unset"
    /\ canRemux = <<>>
    /\ source = [kind |-> "none"]
    /\ decoderConfigs = <<>>
    /\ cur = 0
    /\ globalTimeOffset = 0
    /\ localFirstTimestamp = <<>>
    /\ localLastTimestamp = 0
    /\ yielded = <<>>
    /\ output = <<>>
    /\ buffer = "unset"

InitMerge ==
    /\ mpc = "idle"
    /\ merror = "none"
    /\ chunks = <<>>
    /\ segmented = <<>>
    /\ streams = <<>>

InitThumb ==
    /\ tpc = "idle"
    /\ thumbVideo = [width |-> 0, height |-> 0, pixelRatioHalves |-> 0]
    /\ tiers = <<>>
    /\ thumbInput = "none"
    /\ thumbCanvas = "none"
    /\ fallbackHandles = "none"
    /\ thumbnail = <<>>

NextConcat(trackSet, shapes, limit) ==
    \/ VideoConcat
    \/ Probe(trackSet)
    \/ Negotiate
    \/ Classify
    \/ BeginSession
    \/ NextUnit(shapes, limit)
    \/ UnitFails
    \/ EndOfUnits
    \/ Finalize

NextPaths == NextConcat(PathTracks, PathUnits, MaxUnits)
NextTiming == NextConcat(TimingTracks, TimingUnits, MaxUnits)

NextScenario == NextConcat(TimingTracks, ScenarioUnits, MaxScenarioUnits)

\* -------------------------------------------------------- mergeVideoSessions

\* A chunk's session is Date.now() of the recording run (a number); as a property
\* key of the object Object.groupBy builds it is either an array index (below
\* 2^32 - 1) or not, and that decides where Object.entries lists it.
SessionKeys ==
    { [arrayIndex |-> a, id |-> n] : a \in BOOLEAN, n \in {1, 2} }

\* The capture times of the chunks.
ChunkTimestamps == {1, 2, 3}

\* The stored chunks whose sessions and timestamps f lists; a chunk's data is its
\* stored position.
ChunkList(f) ==
    [i \in 1..Len(f) |-> [data |-> i, session |-> f[i][1], timestamp |-> f[i][2]]]

\* The keys of Object.groupBy's result in creation order: each session where it
\* first appears (line 413).
RECURSIVE GroupKeys(_)
GroupKeys(cs) ==
    IF cs = <<>> THEN <<>>
    ELSE LET front == GroupKeys(SubSeq(cs, 1, Len(cs) - 1))
             key == cs[Len(cs)].session
         IN  IF \E i \in 1..Len(front) : front[i] = key THEN front
             ELSE Append(front, key)

\* Array-index keys in ascending numeric order.
RECURSIVE IndexKeysAscending(_)
IndexKeysAscending(keys) ==
    IF keys = {} THEN <<>>
    ELSE LET least == CHOOSE k \in keys : \A o \in keys : k.id <= o.id
         IN  <<least>> \o IndexKeysAscending(keys \ {least})

\* Object.entries (line 413): array-index keys ascending, then the other keys in
\* creation order.
EntriesOrder(cs) ==
    LET keys == GroupKeys(cs)
    IN  IndexKeysAscending({ keys[i] : i \in { j \in 1..Len(keys) : keys[j].arrayIndex } })
        \o SelectSeq(keys, LAMBDA k : ~k.arrayIndex)

\* toSorted(ascending(x => x.timestamp)) (line 417): a stable sort.
RECURSIVE SortedByTimestamp(_)
SortedByTimestamp(cs) ==
    IF cs = <<>> THEN <<>>
    ELSE LET front == SortedByTimestamp(SubSeq(cs, 1, Len(cs) - 1))
             x == cs[Len(cs)]
             keep == SelectSeq(front, LAMBDA c : c.timestamp <= x.timestamp)
             rest == SelectSeq(front, LAMBDA c : c.timestamp > x.timestamp)
         IN  keep \o <<x>> \o rest

\* Lines 413-418.
Segmented(cs) ==
    LET order == EntriesOrder(cs)
    IN  [k \in 1..Len(order) |->
            [session |-> order[k],
             chunks |-> SortedByTimestamp(
                            SelectSeq(cs, LAMBDA c : c.session = order[k]))]]

\* Line 425: one blob per session, the chunks' data in order.
Streams(seg) ==
    [k \in 1..Len(seg) |-> [j \in 1..Len(seg[k].chunks) |-> seg[k].chunks[j].data]]

\* A test that lets an empty timelapse through.
HasNoChunksNever(cs) == FALSE

\* Line 406.
HasNoChunks(cs) == Len(cs) = 0

\* Lines 405-431: the call, on a timelapse of at most MaxChunks chunks, up to the
\* call of videoConcat.
MergeVideoSessions ==
    /\ mpc = "idle"
    /\ \E n \in 0..MaxChunks : \E f \in [1..n -> SessionKeys \X ChunkTimestamps] :
        LET cs == ChunkList(f)
        IN
        /\ chunks' = cs
        /\ IF HasNoChunks(cs)
           THEN /\ mpc' = "failed"
                /\ merror' = "EmptyInput"
                /\ UNCHANGED <<segmented, streams>>
           ELSE /\ segmented' = Segmented(cs)
                /\ IF Len(Segmented(cs)) = 0
                   THEN /\ mpc' = "failed"
                        /\ merror' = "EmptySegmentation"
                        /\ streams' = streams
                   ELSE /\ mpc' = "concat"
                        /\ merror' = merror
                        /\ streams' = Streams(Segmented(cs))
    /\ UNCHANGED outsideMerge

\* Lines 431-432: videoConcat returns its buffer, which is wrapped in a Blob, or
\* throws, which mergeVideoSessions does not handle.
MergeReturns ==
    /\ mpc = "concat"
    /\ \/ mpc' = "done" /\ merror' = merror
       \/ mpc' = "failed" /\ merror' = "ConcatFailed"
    /\ UNCHANGED <<chunks, segmented, streams>>
    /\ UNCHANGED outsideMerge

NextMerge ==
    \/ MergeVideoSessions
    \/ MergeReturns

\* ---------------------------------------------------- videoGenerateThumbnail

\* The display sizes of the finished video: landscape, portrait, square.
ThumbVideos ==
    { [width |-> 1920, height |-> 1080], [width |-> 1080, height |-> 1920],
      [width |-> 640, height |-> 640] }

\* window.devicePixelRatio, in halves: 1, 1.5, 2.
PixelRatioHalves == {2, 3, 4}

\* Lines 245-247 and 324-326.
Dimension(d1, d2) ==
    IF d1 > d2 THEN THUMBNAIL_SIZE ELSE (THUMBNAIL_SIZE * d1) \div d2

\* Lines 249-253 and 328-333: the size of the canvas that is encoded.
CanvasSize(video) ==
    [width |-> (Dimension(video.width, video.height) * video.pixelRatioHalves) \div 2,
     height |-> (Dimension(video.height, video.width) * video.pixelRatioHalves) \div 2]

\* A function's completion: the blob it returns or the error it throws.
Return(blob) == [kind |-> "return", blob |-> blob]
Raise(message) == [kind |-> "throw", error |-> message]

\* An encoded frame of the video, from the given tier.
FrameBlob(tier, video) ==
    [type |-> "image/jpeg", tier |-> tier, content |-> "frame", size |-> CanvasSize(video)]

\* A last resort that throws when the canvas could not be encoded.
BlackImageResultThrowing(encoded) ==
    IF ~encoded
    THEN Raise("canvas.toBlob() returned null")
    ELSE Return([type |-> "image/jpeg", tier |-> "black", content |-> "black",
                 size |-> [width |-> THUMBNAIL_SIZE, height |-> THUMBNAIL_SIZE]])

\* Lines 293-300: what getBlackImage completes with, given whether canvas.toBlob
\* produced a blob.
BlackImageResult(encoded) ==
    IF ~encoded
    THEN Return([type |-> "image/jpeg", tier |-> "black", content |-> "empty",
                 size |-> [width |-> 0, height |-> 0]])
    ELSE Return([type |-> "image/jpeg", tier |-> "black", content |-> "black",
                 size |-> [width |-> THUMBNAIL_SIZE, height |-> THUMBNAIL_SIZE]])

\* The outcome of the tier that is running is recorded.
TierEnds(outcome) == [tiers EXCEPT ![Len(tiers)].outcome = outcome]

\* Lines 382-386 and 307-310: the call; makeThumbnail opens its input.
VideoGenerateThumbnail ==
    /\ tpc = "idle"
    /\ \E v \in ThumbVideos, r \in PixelRatioHalves :
        thumbVideo' = [width |-> v.width, height |-> v.height, pixelRatioHalves |-> r]
    /\ tpc' = "track"
    /\ tiers' = <<[tier |-> "primary", outcome |-> "running"]>>
    /\ thumbInput' = "open"
    /\ UNCHANGED <<thumbCanvas, fallbackHandles, thumbnail>>
    /\ UNCHANGED outsideThumb

\* A handler that goes from the primary tier straight to the last resort.
PrimaryCaughtSkipsFallback ==
    /\ tpc' = "black"
    /\ tiers' = Append(TierEnds("failed"), [tier |-> "black", outcome |-> "running"])
    /\ fallbackHandles' = fallbackHandles
    /\ thumbnail' = thumbnail

\* Lines 388-393 and 229-238: makeThumbnail's error is caught and
\* makeFallbackThumbnail starts, creating its canvas, video and object URL.
PrimaryCaught ==
    /\ tpc' = "fallbackLoad"
    /\ tiers' = Append(TierEnds("failed"), [tier |-> "fallback", outcome |-> "running"])
    /\ fallbackHandles' = "held"
    /\ thumbnail' = thumbnail

\* Lines 386 and 364, 371: makeThumbnail's blob is returned.
PrimaryReturns ==
    /\ tpc' = "done"
    /\ tiers' = TierEnds("ok")
    /\ fallbackHandles' = fallbackHandles
    /\ thumbnail' = <<Return(FrameBlob("primary", thumbVideo))>>

\* Lines 312-322: the primary track is read and tested.
MakeThumbnailTrack ==
    /\ tpc = "track"
    /\ \E answer \in {"rejected", "null", "noCodec", "cannotDecode", "ok"} :
        IF answer = "ok"
        THEN /\ tpc' = "canvases"
             /\ UNCHANGED <<tiers, fallbackHandles, thumbnail>>
        ELSE PrimaryCaught
    /\ UNCHANGED <<thumbVideo, thumbInput, thumbCanvas>>
    /\ UNCHANGED outsideThumb

\* Lines 337-353: the frame in the middle, or else the first one.
MakeThumbnailCanvases ==
    /\ tpc = "canvases"
    /\ \E answer \in {"rejected", "middle", "first", "nothing"},
          kind \in {"HTMLCanvasElement", "OffscreenCanvas"} :
        IF answer \in {"middle", "first"}
        THEN /\ tpc' = "encode"
             /\ thumbCanvas' = kind
             /\ UNCHANGED <<tiers, fallbackHandles, thumbnail>>
        ELSE /\ PrimaryCaught
             /\ thumbCanvas' = thumbCanvas
    /\ UNCHANGED <<thumbVideo, thumbInput>>
    /\ UNCHANGED outsideThumb

\* Lines 355-376: the canvas is encoded, and the input disposed in the finally.
MakeThumbnailEncode ==
    /\ tpc = "encode"
    /\ \E encoded \in BOOLEAN :
        IF encoded THEN PrimaryReturns ELSE PrimaryCaught
    /\ thumbInput' = "disposed"
    /\ UNCHANGED <<thumbVideo, thumbCanvas>>
    /\ UNCHANGED outsideThumb

\* Lines 395-399 and 270-274: makeFallbackThumbnail's error is caught after its
\* finally, and getBlackImage starts.
FallbackCaught ==
    /\ tpc' = "black"
    /\ tiers' = Append(TierEnds("failed"), [tier |-> "black", outcome |-> "running"])
    /\ fallbackHandles' = "released"
    /\ thumbnail' = thumbnail

\* Lines 240-261: the video loads or fails to; the frame is drawn on the canvas.
MakeFallbackThumbnailLoad ==
    /\ tpc = "fallbackLoad"
    /\ \E answer \in {"error", "noContext", "drawn"} :
        IF answer = "drawn"
        THEN /\ tpc' = "fallbackEncode"
             /\ UNCHANGED <<tiers, fallbackHandles, thumbnail>>
        ELSE FallbackCaught
    /\ UNCHANGED <<thumbVideo, thumbInput, thumbCanvas>>
    /\ UNCHANGED outsideThumb

\* Lines 263-274 and 393: the canvas is encoded; the finally releases the handles.
MakeFallbackThumbnailEncode ==
    /\ tpc = "fallbackEncode"
    /\ \E encoded \in BOOLEAN :
        IF encoded
        THEN /\ tpc' = "done"
             /\ tiers' = TierEnds("ok")
             /\ fallbackHandles' = "released"
             /\ thumbnail' = <<Return(FrameBlob("fallback", thumbVideo))>>
        ELSE FallbackCaught
    /\ UNCHANGED <<thumbVideo, thumbInput, thumbCanvas>>
    /\ UNCHANGED outsideThumb

\* Lines 280-301 and 399: getBlackImage, whose completion is videoGenerateThumbnail's.
GetBlackImage ==
    /\ tpc = "black"
    /\ \E context \in BOOLEAN, encoded \in BOOLEAN :
        /\ thumbnail' = <<BlackImageResult(encoded)>>
        /\ tiers' = TierEnds(IF BlackImageResult(encoded).kind = "return"
                             THEN "ok" ELSE "failed")
    /\ tpc' = "done"
    /\ UNCHANGED <<thumbVideo, thumbInput, thumbCanvas, fallbackHandles>>
    /\ UNCHANGED outsideThumb

NextThumb ==
    \/ VideoGenerateThumbnail
    \/ MakeThumbnailTrack
    \/ MakeThumbnailCanvases
    \/ MakeThumbnailEncode
    \/ MakeFallbackThumbnailLoad
    \/ MakeFallbackThumbnailEncode
    \/ GetBlackImage

\* ------------------------------------------------------------------ server

\* The accounts, and the permission level of each.
Users == {"alice", "bob", "admin", "root"}
\* The accounts that call the procedures that change a timelapse.
Editors == {"alice", "bob", "admin"}
PermissionLevel(user) ==
    CASE user = "admin" -> "ADMIN"
      [] user = "root" -> "ROOT"
      [] OTHER -> "USER"

\* req.ctx.user of a request: an account, or null for a request without a session.
Callers == Users \cup {"anonymous"}

\* crypto.randomUUID() and the ids the database generates draw from these.
DraftIds == {"d1"}
BaseIds == {"b1"}
Requests == {"r1", "r2"}

ENCRYPTED_BUCKET == "lapse-encrypted"
PUBLIC_BUCKET == "lapse-public"

Visibilities == {"UNLISTED", "PUBLIC"}

\* The table without the row of the given id.
Without(table, id) == [i \in DOMAIN table \ {id} |-> table[i]]

\* user.ts lines 564-577: the row createUploadToken creates.
NewUploadToken(owner, bucket, key, mimeType) ==
    [ownerId |-> owner, bucket |-> bucket, key |-> key, mimeType |-> mimeType,
     uploaded |-> FALSE, expired |-> FALSE]

\* part_005 lines 360 and 368: the keys of a draft's video and thumbnail.
VideoKey(owner, base) == [owner |-> owner, base |-> base, suffix |-> ".webm"]
ThumbnailKey(owner, base) == [owner |-> owner, base |-> base, suffix |-> "-thumbnail.jpg"]

\* part_005 line 663: s3Key.replace(/\.(webm|mp4)$/, "-thumbnail.jpg").
PublishedThumbnailKey(s3Key) ==
    IF s3Key.suffix = ".webm" THEN [s3Key EXCEPT !.suffix = "-thumbnail.jpg"] ELSE s3Key

\* part_005 line 159 and lines 49-51: the bucket that isPublished designates.
BucketOf(isPublished) == IF isPublished THEN PUBLIC_BUCKET ELSE ENCRYPTED_BUCKET

\* An access rule that takes every caller for the owner.
IsOwnerAnyone(actor, timelapse) == TRUE

\* part_005 lines 116-124.
IsOwner(actor, timelapse) ==
    IF actor = "SERVER" THEN TRUE
    ELSE \/ (actor # "anonymous" /\ actor = timelapse.ownerId)
         \/ (actor # "anonymous" /\ PermissionLevel(actor) \in {"ADMIN", "ROOT"})

\* part_005 lines 38-56.
DtoTimelapse(id, entity) ==
    [id |-> id,
     ownerId |-> entity.ownerId,
     name |-> entity.name,
     description |-> entity.description,
     visibility |-> entity.visibility,
     playbackUrl |-> [bucket |-> BucketOf(entity.isPublished), key |-> entity.s3Key],
     thumbnailUrl |->
        IF entity.thumbnailS3Key # <<>>
        THEN <<[bucket |-> BucketOf(entity.isPublished), key |-> entity.thumbnailS3Key[1]]>>
        ELSE <<>>,
     isPublished |-> entity.isPublished,
     private |-> <<>>]

\* part_005 lines 61-69.
DtoOwnedTimelapse(id, entity) ==
    [DtoTimelapse(id, entity) EXCEPT
        !.private = <<[device |-> entity.deviceId,
                       hackatimeProject |-> entity.hackatimeProject]>>]

\* A tRPC answer: apiOk with a timelapse, apiOk without one, apiErr.
ApiOk(proc, caller, dto) ==
    [proc |-> proc, caller |-> caller, ok |-> TRUE, error |-> "", timelapse |-> <<dto>>]
ApiOkEmpty(proc, caller) ==
    [proc |-> proc, caller |-> caller, ok |-> TRUE, error |-> "", timelapse |-> <<>>]
ApiErr(proc, caller, code) ==
    [proc |-> proc, caller |-> caller, ok |-> FALSE, error |-> code, timelapse |-> <<>>]

\* part_005 lines 107-130 and 304-311: what timelapse.query answers.
GetTimelapseById(id, actor) ==
    IF id \notin DOMAIN timelapses THEN ApiErr("query", actor, "NOT_FOUND")
    ELSE IF ~timelapses[id].isPublished /\ ~IsOwner(actor, timelapses[id])
    THEN ApiErr("query", actor, "NOT_FOUND")
    ELSE IF IsOwner(actor, timelapses[id])
    THEN ApiOk("query", actor, DtoOwnedTimelapse(id, timelapses[id]))
    ELSE ApiOk("query", actor, DtoTimelapse(id, timelapses[id]))

\* part_005 lines 290-312.
Query ==
    /\ \E id \in DraftIds, caller \in Callers :
        response' = GetTimelapseById(id, caller)
    /\ UNCHANGED <<nodeEnv, knownDevices, uploadTokens, draftTimelapses, timelapses,
                   snapshots, s3, s3Puts, uploads>>
    /\ UNCHANGED issued
    /\ UNCHANGED outsideServer

\* user.ts lines 334-360: a device of the caller's is registered.
RegisterDevice ==
    /\ \E caller \in {"alice", "bob"} :
        /\ caller \notin DOMAIN knownDevices
        /\ knownDevices' = knownDevices @@ (caller :> [ownerId |-> caller])
        /\ response' = ApiOkEmpty("registerDevice", caller)
    /\ UNCHANGED <<nodeEnv, uploadTokens, draftTimelapses, timelapses, snapshots, s3,
                   s3Puts, uploads>>
    /\ UNCHANGED issued
    /\ UNCHANGED outsideServer

\* part_005 lines 353-382.
CreateDraft ==
    /\ \E caller \in {"alice"}, id \in DraftIds, base \in BaseIds :
        /\ id \notin issued
        /\ base \notin issued
        /\ issued' = issued \cup {id, base}
        /\ uploadTokens' = uploadTokens
              @@ (<<base, "video">> :>
                    NewUploadToken(caller, ENCRYPTED_BUCKET, VideoKey(caller, base),
                                   "video/webm"))
              @@ (<<base, "thumbnail">> :>
                    NewUploadToken(caller, ENCRYPTED_BUCKET, ThumbnailKey(caller, base),
                                   "image/jpeg"))
        /\ draftTimelapses' = draftTimelapses
              @@ (id :> [ownerId |-> caller, videoTokenId |-> <<base, "video">>,
                         thumbnailTokenId |-> <<base, "thumbnail">>])
        /\ response' = ApiOkEmpty("createDraft", caller)
    /\ UNCHANGED <<nodeEnv, knownDevices, timelapses, snapshots, s3, s3Puts, uploads>>
    /\ UNCHANGED outsideServer

\* part_003 lines 116-121 and part_005 line 465: snapshots.sort(ascending()).
SortAscending(xs) == SortSeq(xs, LAMBDA a, b : a - b < 0)

\* part_003 lines 284-288: the chunks of size n of array, in order.
Chunked(array, n) ==
    [b \in 1..((Len(array) + n - 1) \div n) |->
        SubSeq(array, (b - 1) * n + 1,
               IF b * n < Len(array) THEN b * n ELSE Len(array))]

\* part_005 lines 470-474: batch.map((x, i) => ...), i being the index in the
\* batch.
BatchRows(timelapseId, batch) ==
    [i \in 1..Len(batch) |->
        [timelapseId |-> timelapseId, frame |-> i - 1, createdAt |-> batch[i]]]

\* part_005 lines 468-475: createMany with skipDuplicates. Whether the table has a
\* unique key on (timelapseId, frame) is the schema's choice: with one, a row whose
\* key is taken is skipped.
CreateMany(table, rows, uniqueFrames) ==
    IF uniqueFrames
    THEN table \o SelectSeq(rows, LAMBDA r :
                    \A k \in 1..Len(table) :
                        ~(table[k].timelapseId = r.timelapseId /\ table[k].frame = r.frame))
    ELSE table \o rows

\* part_005 lines 465-476: the snapshot table after the loop over the batches.
RECURSIVE InsertBatches(_, _, _, _)
InsertBatches(table, timelapseId, batches, uniqueFrames) ==
    IF batches = <<>> THEN table
    ELSE InsertBatches(
            CreateMany(table, BatchRows(timelapseId, batches[1]), uniqueFrames),
            timelapseId, Tail(batches), uniqueFrames)

\* A test that asks for the video alone.
OnlyVideoUploaded(videoUpload, thumbnailUpload) == videoUpload.uploaded

\* part_005 lines 431-435: both files have been uploaded.
BothUploaded(videoUpload, thumbnailUpload) ==
    videoUpload.uploaded /\ thumbnailUpload.uploaded

\* part_005 lines 414-484, on the snapshot arrays given.
Commit(snapshotInputs) ==
    /\ \E caller \in {"alice", "bob"}, id \in DraftIds, name \in {"n1"},
          description \in {""}, visibility \in Visibilities,
          deviceId \in {"alice", "bob", "unknown"}, input \in snapshotInputs,
          uniqueFrames \in BOOLEAN :
        IF ~(id \in DOMAIN draftTimelapses /\ draftTimelapses[id].ownerId = caller)
        THEN /\ response' = ApiErr("commit", caller, "NOT_FOUND")
             /\ UNCHANGED <<uploadTokens, draftTimelapses, timelapses, snapshots>>
        ELSE LET draft == draftTimelapses[id]
                 videoUpload == uploadTokens[draft.videoTokenId]
                 thumbnailUpload == uploadTokens[draft.thumbnailTokenId]
             IN
             IF ~BothUploaded(videoUpload, thumbnailUpload)
             THEN /\ response' = ApiErr("commit", caller, "NO_FILE")
                  /\ UNCHANGED <<uploadTokens, draftTimelapses, timelapses, snapshots>>
             ELSE IF deviceId \notin DOMAIN knownDevices
             THEN /\ response' = ApiErr("commit", caller, "DEVICE_NOT_FOUND")
                  /\ UNCHANGED <<uploadTokens, draftTimelapses, timelapses, snapshots>>
             ELSE IF knownDevices[deviceId].ownerId # caller
             THEN /\ response' = ApiErr("commit", caller, "NO_PERMISSION")
                  /\ UNCHANGED <<uploadTokens, draftTimelapses, timelapses, snapshots>>
             ELSE LET timelapse ==
                          [ownerId |-> caller, name |-> name, description |-> description,
                           visibility |-> visibility, isPublished |-> FALSE,
                           s3Key |-> videoUpload.key,
                           thumbnailS3Key |-> <<thumbnailUpload.key>>,
                           deviceId |-> <<deviceId>>, hackatimeProject |-> <<>>,
                           duration |-> Len(input) * TIMELAPSE_FRAME_LENGTH_MS]
                  IN  /\ timelapses' = timelapses @@ (id :> timelapse)
                      /\ snapshots' =
                            InsertBatches(snapshots, id,
                                          Chunked(SortAscending(input), SNAPSHOT_BATCH_SIZE),
                                          uniqueFrames)
                      /\ draftTimelapses' = Without(draftTimelapses, id)
                      /\ uploadTokens' =
                            Without(Without(uploadTokens, draft.videoTokenId),
                                    draft.thumbnailTokenId)
                      /\ response' = ApiOk("commit", caller, DtoOwnedTimelapse(id, timelapse))
    /\ UNCHANGED <<nodeEnv, knownDevices, s3, s3Puts, uploads>>
    /\ UNCHANGED issued
    /\ UNCHANGED outsideServer

\* No commit in flight.
NoCommit == [pc |-> "idle"]

\* The same procedure followed through its awaits, for what other requests do to
\* the tables in between. A call ends with its answer, or with the error it
\* threw, which tRPC answers as INTERNAL_SERVER_ERROR.
CommitEnds(answer) ==
    /\ committing' = NoCommit
    /\ response' = answer

\* part_005 lines 417-435: the draft is read with its two tokens, and tested.
CommitRead ==
    /\ committing.pc = "idle"
    /\ \E caller \in {"alice", "bob"}, id \in DraftIds :
        IF ~(id \in DOMAIN draftTimelapses /\ draftTimelapses[id].ownerId = caller)
        THEN CommitEnds(ApiErr("commit", caller, "NOT_FOUND"))
        ELSE LET draft == draftTimelapses[id]
                 videoUpload == uploadTokens[draft.videoTokenId]
                 thumbnailUpload == uploadTokens[draft.thumbnailTokenId]
             IN  IF ~BothUploaded(videoUpload, thumbnailUpload)
                 THEN CommitEnds(ApiErr("commit", caller, "NO_FILE"))
                 ELSE /\ committing' =
                            [pc |-> "device", caller |-> caller, id |-> id,
                             draft |-> draft, videoUpload |-> videoUpload,
                             thumbnailUpload |-> thumbnailUpload]
                      /\ response' = response
    /\ UNCHANGED <<syncs, heartbeatPushes, heartbeatIds>>
    /\ UNCHANGED <<nodeEnv, knownDevices, uploadTokens, draftTimelapses, timelapses,
                   snapshots, s3, s3Puts, uploads, issued>>
    /\ UNCHANGED outsideFlight

\* part_005 lines 437-445: the device is read and tested.
CommitDevice ==
    /\ committing.pc = "device"
    /\ \E deviceId \in {"alice", "bob", "unknown"} :
        IF deviceId \notin DOMAIN knownDevices
        THEN CommitEnds(ApiErr("commit", committing.caller, "DEVICE_NOT_FOUND"))
        ELSE IF knownDevices[deviceId].ownerId # committing.caller
        THEN CommitEnds(ApiErr("commit", committing.caller, "NO_PERMISSION"))
        ELSE /\ committing' = [committing EXCEPT !.pc = "create"] @@ [deviceId |-> deviceId]
             /\ response' = response
    /\ UNCHANGED <<syncs, heartbeatPushes, heartbeatIds>>
    /\ UNCHANGED <<nodeEnv, knownDevices, uploadTokens, draftTimelapses, timelapses,
                   snapshots, s3, s3Puts, uploads, issued>>
    /\ UNCHANGED outsideFlight

\* part_005 lines 447-476: the timelapse is created from the tokens that were
\* read, then its snapshots; creating a timelapse under an id that is taken throws.
CommitCreate(snapshotInputs) ==
    /\ committing.pc = "create"
    /\ \E input \in snapshotInputs, visibility \in Visibilities, uniqueFrames \in BOOLEAN :
        IF committing.id \in DOMAIN timelapses
        THEN /\ CommitEnds(ApiErr("commit", committing.caller, "INTERNAL_SERVER_ERROR"))
             /\ UNCHANGED <<timelapses, snapshots>>
        ELSE /\ timelapses' = timelapses @@
                    (committing.id :>
                        [ownerId |-> committing.caller, name |-> "n1", description |-> "",
                         visibility |-> visibility, isPublished |-> FALSE,
                         s3Key |-> committing.videoUpload.key,
                         thumbnailS3Key |-> <<committing.thumbnailUpload.key>>,
                         deviceId |-> <<committing.deviceId>>, hackatimeProject |-> <<>>,
                         duration |-> Len(input) * TIMELAPSE_FRAME_LENGTH_MS])
             /\ snapshots' =
                    InsertBatches(snapshots, committing.id,
                                  Chunked(SortAscending(input), SNAPSHOT_BATCH_SIZE),
                                  uniqueFrames)
             /\ committing' = [committing EXCEPT !.pc = "consume"]
             /\ response' = response
    /\ UNCHANGED <<syncs, heartbeatPushes, heartbeatIds>>
    /\ UNCHANGED <<nodeEnv, knownDevices, uploadTokens, draftTimelapses, s3, s3Puts,
                   uploads, issued>>
    /\ UNCHANGED outsideFlight

\* part_005 lines 478-483: the transaction deletes the draft and consumes its
\* tokens; it throws, and changes nothing, when the draft row is gone or the
\* database fails.
CommitConsume ==
    /\ committing.pc = "consume"
    /\ \E databaseFails \in BOOLEAN :
        IF databaseFails \/ committing.id \notin DOMAIN draftTimelapses
        THEN /\ CommitEnds(ApiErr("commit", committing.caller, "INTERNAL_SERVER_ERROR"))
             /\ UNCHANGED <<draftTimelapses, uploadTokens>>
        ELSE /\ draftTimelapses' = Without(draftTimelapses, committing.id)
             /\ uploadTokens' =
                    [t \in DOMAIN uploadTokens \
                           {committing.draft.videoTokenId, committing.draft.thumbnailTokenId}
                       |-> uploadTokens[t]]
             /\ CommitEnds(ApiOk("commit", committing.caller,
                                 DtoOwnedTimelapse(committing.id, timelapses[committing.id])))
    /\ UNCHANGED <<syncs, heartbeatPushes, heartbeatIds>>
    /\ UNCHANGED <<nodeEnv, knownDevices, timelapses, snapshots, s3, s3Puts, uploads,
                   issued>>
    /\ UNCHANGED outsideFlight

\* A connection without a syncWithHackatime call.
NoSync == [pc |-> "idle"]

\* The connections that call timelapse.syncWithHackatime.
SyncConnections == {"s1", "s2"}

\* The project names the calls give.
HackatimeProjects == {"p1", "p2"}

\* The call of connection c ends with its answer.
SyncEnds(c, answer) ==
    /\ syncs' = [syncs EXCEPT ![c] = NoSync]
    /\ response' = answer

\* part_005 lines 760-786: the caller's timelapse is read with its owner and
\* tested, and the owner's API key fetched.
SyncBegin(c) ==
    /\ syncs[c].pc = "idle"
    /\ \E caller \in {"alice", "bob"}, id \in DraftIds, project \in HackatimeProjects,
          linked \in BOOLEAN, hasApiKey \in BOOLEAN :
        IF ~(id \in DOMAIN timelapses /\ timelapses[id].ownerId = caller)
        THEN SyncEnds(c, ApiErr("syncWithHackatime", caller, "NOT_FOUND"))
        ELSE IF timelapses[id].hackatimeProject # <<>>
        THEN SyncEnds(c, ApiErr("syncWithHackatime", caller, "HACKATIME_ERROR"))
        ELSE IF ~linked \/ ~hasApiKey
        THEN SyncEnds(c, ApiErr("syncWithHackatime", caller, "ERROR"))
        ELSE /\ syncs' = [syncs EXCEPT ![c] = [pc |-> "push", caller |-> caller,
                                               id |-> id, project |-> project]]
             /\ response' = response
    /\ UNCHANGED <<committing, heartbeatPushes, heartbeatIds>>
    /\ UNCHANGED <<nodeEnv, knownDevices, uploadTokens, draftTimelapses, timelapses,
                   snapshots, s3, s3Puts, uploads, issued>>
    /\ UNCHANGED outsideFlight

\* part_005 lines 788-807: the snapshots are read and pushed as heartbeats, all
\* of them, before the answers are looked at.
SyncPush(c) ==
    /\ syncs[c].pc = "push"
    /\ Len(heartbeatPushes) < MaxPushes
    /\ heartbeatPushes' =
          Append(heartbeatPushes,
                 [connection |-> c, timelapse |-> syncs[c].id, project |-> syncs[c].project,
                  times |-> [i \in 1..Len(SelectSeq(snapshots,
                                           LAMBDA row : row.timelapseId = syncs[c].id)) |->
                               SelectSeq(snapshots,
                                   LAMBDA row : row.timelapseId = syncs[c].id)[i].createdAt],
                  completed |-> FALSE])
    /\ \E accepted \in BOOLEAN :
        IF accepted
        THEN /\ syncs' = [syncs EXCEPT ![c] = [@ EXCEPT !.pc = "update"] @@
                                              [push |-> Len(heartbeatPushes) + 1]]
             /\ response' = response
        ELSE SyncEnds(c, ApiErr("syncWithHackatime", syncs[c].caller, "HACKATIME_ERROR"))
    /\ UNCHANGED <<committing, heartbeatIds>>
    /\ UNCHANGED <<nodeEnv, knownDevices, uploadTokens, draftTimelapses, timelapses,
                   snapshots, s3, s3Puts, uploads, issued>>
    /\ UNCHANGED outsideFlight

\* part_005 lines 809-830: every snapshot gets the id of its heartbeat, and the
\* timelapse its project.
SyncUpdate(c) ==
    /\ syncs[c].pc = "update"
    /\ heartbeatIds' =
          IF heartbeatPushes[syncs[c].push].times = <<>> THEN heartbeatIds
          ELSE [heartbeatIds EXCEPT ![syncs[c].id] = <<syncs[c].push>>]
    /\ heartbeatPushes' = [heartbeatPushes EXCEPT ![syncs[c].push].completed = TRUE]
    /\ timelapses' =
          [timelapses EXCEPT ![syncs[c].id].hackatimeProject = <<syncs[c].project>>]
    /\ SyncEnds(c, ApiOk("syncWithHackatime", syncs[c].caller,
                         DtoOwnedTimelapse(syncs[c].id,
                             [timelapses[syncs[c].id] EXCEPT
                                 !.hackatimeProject = <<syncs[c].project>>])))
    /\ UNCHANGED committing
    /\ UNCHANGED <<nodeEnv, knownDevices, uploadTokens, draftTimelapses, snapshots, s3,
                   s3Puts, uploads, issued>>
    /\ UNCHANGED outsideFlight

\* part_005 lines 525-527: canEdit.
UpdateAllowed(caller, timelapse) ==
    \/ caller = timelapse.ownerId
    \/ PermissionLevel(caller) \in {"ADMIN", "ROOT"}

\* part_005 lines 515-552.
Update ==
    /\ \E caller \in Editors, id \in DraftIds,
          name \in {<<>>, <<"n2">>},
          description \in {<<>>, <<"text">>},
          visibility \in {<<>>} \cup { <<v>> : v \in Visibilities } :
        IF id \notin DOMAIN timelapses
        THEN /\ response' = ApiErr("update", caller, "NOT_FOUND")
             /\ timelapses' = timelapses
        ELSE IF ~UpdateAllowed(caller, timelapses[id])
        THEN /\ response' = ApiErr("update", caller, "NOT_FOUND")
             /\ timelapses' = timelapses
        ELSE LET old == timelapses[id]
                 updated ==
                    [old EXCEPT
                        !.name = IF name # <<>> THEN name[1] ELSE @,
                        !.description = IF description # <<>> THEN description[1] ELSE @,
                        !.visibility = IF visibility # <<>> THEN visibility[1] ELSE @]
             IN  /\ timelapses' = [timelapses EXCEPT ![id] = updated]
                 /\ response' = ApiOk("update", caller, DtoOwnedTimelapse(id, updated))
    /\ UNCHANGED <<nodeEnv, knownDevices, uploadTokens, draftTimelapses, snapshots, s3,
                   s3Puts, uploads>>
    /\ UNCHANGED issued
    /\ UNCHANGED outsideServer

\* part_005 lines 608-699. failAt names the step that throws or comes back empty,
\* "get" standing for the steps before anything is written: the GetObject, the
\* decryption, the PutObject of the video;
\* the thumbnail cannot be generated, or gets its key and cannot be stored, or is
\* stored (lines 658-675).
Publish ==
    /\ \E caller \in Editors, id \in DraftIds, visibility \in Visibilities,
          thumbnailPut \in {"failed", "keyed", "stored"},
          failAt \in {"none", "get", "body", "delete", "update"} :
        IF id \notin DOMAIN timelapses
        THEN /\ response' = ApiErr("publish", caller, "NOT_FOUND")
             /\ UNCHANGED <<timelapses, s3>>
        ELSE IF ~(caller = timelapses[id].ownerId
                    \/ PermissionLevel(caller) \in {"ADMIN", "ROOT"})
        THEN /\ response' = ApiErr("publish", caller, "NO_PERMISSION")
             /\ UNCHANGED <<timelapses, s3>>
        ELSE IF timelapses[id].isPublished
        THEN /\ response' = ApiErr("publish", caller, "ALREADY_PUBLISHED")
             /\ UNCHANGED <<timelapses, s3>>
        ELSE
        LET timelapse == timelapses[id]
            encrypted == [bucket |-> ENCRYPTED_BUCKET, key |-> timelapse.s3Key]
            public == [bucket |-> PUBLIC_BUCKET, key |-> timelapse.s3Key]
            thumbnailS3Key ==
                IF thumbnailPut # "failed" THEN <<PublishedThumbnailKey(timelapse.s3Key)>>
                ELSE <<>>
            stored == {public} \cup
                IF thumbnailPut = "stored"
                THEN {[bucket |-> PUBLIC_BUCKET, key |-> thumbnailS3Key[1]]}
                ELSE {}
            published ==
                [timelapse EXCEPT !.isPublished = TRUE, !.deviceId = <<>>,
                                  !.thumbnailS3Key = thumbnailS3Key,
                                  !.visibility = visibility]
        IN
        IF failAt = "get" \/ encrypted \notin s3
        THEN /\ response' = ApiErr("publish", caller, "ERROR")
             /\ UNCHANGED <<timelapses, s3>>
        ELSE IF failAt = "body"
        THEN /\ response' = ApiErr("publish", caller, "NO_FILE")
             /\ UNCHANGED <<timelapses, s3>>
        ELSE IF failAt = "delete"
        THEN /\ response' = ApiErr("publish", caller, "ERROR")
             /\ s3' = s3 \cup stored
             /\ timelapses' = timelapses
        ELSE IF failAt = "update"
        THEN /\ response' = ApiErr("publish", caller, "ERROR")
             /\ s3' = (s3 \cup stored) \ {encrypted}
             /\ timelapses' = timelapses
        ELSE /\ response' = ApiOk("publish", caller, DtoOwnedTimelapse(id, published))
             /\ s3' = (s3 \cup stored) \ {encrypted}
             /\ timelapses' = [timelapses EXCEPT ![id] = published]
    /\ UNCHANGED <<nodeEnv, knownDevices, uploadTokens, draftTimelapses, snapshots,
                   s3Puts, uploads>>
    /\ UNCHANGED issued
    /\ UNCHANGED outsideServer

\* part_005 lines 143-148: canDelete.
CanDelete(actor, timelapse) ==
    \/ actor = timelapse.ownerId
    \/ PermissionLevel(actor) \in {"ADMIN", "ROOT"}

\* part_005 lines 135-178: how deleteTimelapse completes. It returns an Err for a
\* timelapse that is not there or not the actor's to delete, returns nothing once
\* it has deleted, and throws when a call to the database or to S3 fails.
DeleteTimelapseCompletion(id, actor, failAt) ==
    IF id \notin DOMAIN timelapses THEN "NOT_FOUND"
    ELSE IF ~CanDelete(actor, timelapses[id]) THEN "NO_PERMISSION"
    ELSE IF failAt # "none" THEN "throw"
    ELSE "void"

\* part_005 lines 564-575 and 135-178: timelapse.delete. The handler looks at
\* what deleteTimelapse throws, never at what it returns.
Delete ==
    /\ \E caller \in Editors, id \in DraftIds,
          failAt \in {"none", "snapshots", "video", "thumbnail", "row"} :
        LET completion == DeleteTimelapseCompletion(id, caller, failAt)
        IN  /\ response' = IF completion = "throw"
                           THEN ApiErr("delete", caller, "ERROR")
                           ELSE ApiOkEmpty("delete", caller)
            /\ IF completion \in {"NOT_FOUND", "NO_PERMISSION"}
               THEN UNCHANGED <<timelapses, snapshots, s3>>
               ELSE LET timelapse == timelapses[id]
                        bucket == BucketOf(timelapse.isPublished)
                        video == {[bucket |-> bucket, key |-> timelapse.s3Key]}
                        thumb == IF timelapse.thumbnailS3Key = <<>> THEN {}
                                 ELSE {[bucket |-> bucket,
                                        key |-> timelapse.thumbnailS3Key[1]]}
                    IN  /\ snapshots' =
                              IF failAt = "snapshots" THEN snapshots
                              ELSE SelectSeq(snapshots, LAMBDA row : row.timelapseId # id)
                        /\ s3' =
                              IF failAt \in {"snapshots", "video"} THEN s3
                              ELSE IF failAt = "thumbnail" THEN s3 \ video
                              ELSE s3 \ (video \cup thumb)
                        /\ timelapses' =
                              IF failAt = "none" THEN Without(timelapses, id)
                              ELSE timelapses
    /\ UNCHANGED <<nodeEnv, knownDevices, uploadTokens, draftTimelapses, s3Puts,
                   uploads, issued>>
    /\ UNCHANGED outsideServer

\* ------------------------------------------------------------ POST /api/upload

\* A connection without a request.
NoUpload ==
    [pc |-> "idle", user |-> "anonymous", tokenId |-> <<>>, token |-> <<>>, status |-> 0,
     aborted |-> {}]

\* The request of connection r ends with the given HTTP status.
Respond(r, status) ==
    uploads' = [uploads EXCEPT ![r] = [NoUpload EXCEPT !.status = status]]

\* user.ts lines 640-661.
IsUploadTokenUnused(token) ==
    ~\E id \in DOMAIN timelapses :
        /\ timelapses[id].isPublished = (token.bucket = PUBLIC_BUCKET)
        /\ \/ timelapses[id].s3Key = token.key
           \/ timelapses[id].thumbnailS3Key = <<token.key>>

\* The drafts that hold the token.
DraftsOf(tokenId) ==
    { d \in DOMAIN draftTimelapses :
        tokenId \in {draftTimelapses[d].videoTokenId, draftTimelapses[d].thumbnailTokenId} }

\* upload.ts lines 71-90: the tokens past their expiry.
StaleTokens == { t \in DOMAIN uploadTokens : uploadTokens[t].expired }

\* A wipe that never looks for a timelapse.
WipeAbortsNever(token) == FALSE

\* user.ts lines 668-673: the wipe of a token with data is given up when a
\* timelapse uses the data.
WipeAborts(token) == token.uploaded /\ ~IsUploadTokenUnused(token)

\* user.ts lines 668-681: the object that the wipe of the token deletes, if any.
WipedObjects(token) ==
    IF token.uploaded /\ ~WipeAborts(token)
    THEN {[bucket |-> token.bucket, key |-> token.key]}
    ELSE {}

\* upload.ts lines 62-90: the request arrives; in production the stale tokens are
\* wiped (user.ts lines 667-686), each wipe failing on its own, the wipes given up
\* being logged. Deleting the row of a token that a draft holds either takes the
\* draft with it or is refused by the database, as the schema has it; a refused
\* delete throws after the object is gone.
UploadBegin(r) ==
    /\ uploads[r].pc = "idle"
    /\ \E user \in {"alice", "bob", "anonymous"},
          env \in IF nodeEnv = "unread" THEN {"production", "development"} ELSE {nodeEnv} :
        IF user = "anonymous"
        THEN /\ Respond(r, 401)
             /\ UNCHANGED <<nodeEnv, uploadTokens, draftTimelapses, s3>>
        ELSE /\ uploads' =
                   [uploads EXCEPT ![r] =
                       [NoUpload EXCEPT
                           !.pc = "parse", !.user = user,
                           !.aborted = IF env = "production"
                                       THEN { t \in StaleTokens : WipeAborts(uploadTokens[t]) }
                                       ELSE {}]]
             /\ nodeEnv' = env
             /\ IF env = "production"
                THEN \E cascade \in BOOLEAN :
                        LET wiped == { t \in StaleTokens : ~WipeAborts(uploadTokens[t]) }
                            held == { t \in wiped : DraftsOf(t) # {} }
                            gone == IF cascade THEN wiped ELSE wiped \ held
                        IN  /\ s3' = s3 \ UNION { WipedObjects(uploadTokens[t]) :
                                                    t \in wiped }
                            /\ uploadTokens' = [t \in DOMAIN uploadTokens \ gone |->
                                                   uploadTokens[t]]
                            /\ draftTimelapses' =
                                  IF cascade
                                  THEN [d \in DOMAIN draftTimelapses \
                                              UNION { DraftsOf(t) : t \in wiped } |->
                                           draftTimelapses[d]]
                                  ELSE draftTimelapses
                ELSE UNCHANGED <<uploadTokens, draftTimelapses, s3>>
    /\ UNCHANGED <<knownDevices, timelapses, snapshots, s3Puts, response>>
    /\ UNCHANGED issued
    /\ UNCHANGED outsideServer

\* The token ids a form may carry.
FormTokens == { <<b, k>> : b \in BaseIds, k \in {"video", "thumbnail"} }

\* upload.ts lines 92-126: the form is parsed, the token read and tested.
UploadCheck(r) ==
    /\ uploads[r].pc = "parse"
    /\ \E tokenId \in {<<>>} \cup { <<t>> : t \in FormTokens },
          file \in {"none", "fits", "tooLarge", "wrongType"} :
        IF tokenId = <<>> \/ file = "none" THEN Respond(r, 400)
        ELSE IF ~(tokenId[1] \in DOMAIN uploadTokens
                    /\ uploadTokens[tokenId[1]].ownerId = uploads[r].user)
        THEN Respond(r, 400)
        ELSE IF uploadTokens[tokenId[1]].expired THEN Respond(r, 401)
        ELSE IF uploadTokens[tokenId[1]].uploaded THEN Respond(r, 409)
        ELSE IF file = "tooLarge" THEN Respond(r, 413)
        ELSE IF file = "wrongType" THEN Respond(r, 400)
        ELSE uploads' = [uploads EXCEPT ![r].pc = "put", ![r].tokenId = tokenId,
                                        ![r].token = <<uploadTokens[tokenId[1]]>>]
    /\ UNCHANGED <<nodeEnv, knownDevices, uploadTokens, draftTimelapses, timelapses,
                   snapshots, s3, s3Puts, response>>
    /\ UNCHANGED issued
    /\ UNCHANGED outsideServer

\* upload.ts lines 130-137 and 145-148: the object is written under the bucket and
\* key of the token that was read, or the write throws.
UploadPut(r) ==
    /\ uploads[r].pc = "put"
    /\ \/ /\ s3' = s3 \cup {[bucket |-> uploads[r].token[1].bucket,
                             key |-> uploads[r].token[1].key]}
          /\ s3Puts' = [s3Puts EXCEPT ![uploads[r].tokenId[1]] = @ + 1]
          /\ uploads' = [uploads EXCEPT ![r].pc = "mark"]
       \/ /\ Respond(r, 500)
          /\ UNCHANGED <<s3, s3Puts>>
    /\ UNCHANGED <<nodeEnv, knownDevices, uploadTokens, draftTimelapses, timelapses,
                   snapshots, response>>
    /\ UNCHANGED issued
    /\ UNCHANGED outsideServer

\* user.ts lines 589-600 and upload.ts lines 139-143: markUploadTokenUploaded reads
\* the token again.
UploadMark(r) ==
    /\ uploads[r].pc = "mark"
    /\ LET tokenId == uploads[r].tokenId[1]
       IN  IF ~(tokenId \in DOMAIN uploadTokens
                  /\ uploadTokens[tokenId].ownerId = uploads[r].user)
           THEN Respond(r, 400)
           ELSE IF uploadTokens[tokenId].expired THEN Respond(r, 400)
           ELSE IF uploadTokens[tokenId].uploaded THEN Respond(r, 200)
           ELSE uploads' = [uploads EXCEPT ![r].pc = "update"]
    /\ UNCHANGED <<nodeEnv, knownDevices, uploadTokens, draftTimelapses, timelapses,
                   snapshots, s3, s3Puts, response>>
    /\ UNCHANGED issued
    /\ UNCHANGED outsideServer

\* user.ts lines 602-607 and upload.ts lines 143-148: the row is updated; the
\* update of a row that is gone throws.
UploadMarkUpdate(r) ==
    /\ uploads[r].pc = "update"
    /\ LET tokenId == uploads[r].tokenId[1]
       IN  IF tokenId \in DOMAIN uploadTokens
           THEN /\ uploadTokens' = [uploadTokens EXCEPT ![tokenId].uploaded = TRUE]
                /\ Respond(r, 200)
           ELSE /\ uploadTokens' = uploadTokens
                /\ Respond(r, 500)
    /\ UNCHANGED <<nodeEnv, knownDevices, draftTimelapses, timelapses, snapshots, s3,
                   s3Puts, response>>
    /\ UNCHANGED issued
    /\ UNCHANGED outsideServer

\* user.ts lines 547-549: the lifetime of a token runs out.
TokenExpires ==
    /\ \E t \in DOMAIN uploadTokens :
        /\ ~uploadTokens[t].expired
        /\ uploadTokens' = [uploadTokens EXCEPT ![t].expired = TRUE]
    /\ UNCHANGED <<nodeEnv, knownDevices, draftTimelapses, timelapses, snapshots, s3,
                   s3Puts, response, uploads>>
    /\ UNCHANGED issued
    /\ UNCHANGED outsideServer

NextUpload(connections) ==
    \E r \in connections :
        \/ UploadBegin(r)
        \/ UploadCheck(r)
        \/ UploadPut(r)
        \/ UploadMark(r)
        \/ UploadMarkUpdate(r)

\* The snapshot arrays of the calls of timelapse.commit.
SmallSnapshotInputs == {<<>>, <<20, 10>>}

\* The arrays of n timestamps: ascending, descending, and ascending in pairs of
\* equal timestamps.
SnapshotPattern(n, kind) ==
    CASE kind = "ascending" -> [i \in 1..n |-> i]
      [] kind = "descending" -> [i \in 1..n |-> n + 1 - i]
      [] kind = "paired" -> [i \in 1..n |-> (i + 1) \div 2]
\* Arrays of a few timestamps, and arrays around the longest.
LargeSnapshotInputs ==
    { SnapshotPattern(n, kind) :
        n \in (0..5) \cup ((MaxSnapshots - 3)..MaxSnapshots),
        kind \in {"ascending", "descending", "paired"} }

InitServer ==
    /\ nodeEnv = "unread"
    /\ knownDevices = <<>>
    /\ uploadTokens = <<>>
    /\ draftTimelapses = <<>>
    /\ timelapses = <<>>
    /\ snapshots = <<>>
    /\ s3 = {}
    /\ s3Puts = [t \in FormTokens |-> 0]
    /\ response = ApiOkEmpty("none", "anonymous")
    /\ uploads = [r \in Requests |-> NoUpload]
    /\ issued = {}

InitFlight ==
    /\ committing = NoCommit
    /\ syncs = [c \in SyncConnections |-> NoSync]
    /\ heartbeatPushes = <<>>
    /\ heartbeatIds = [id \in DraftIds |-> <<>>]

\* The tRPC procedures and one upload connection, without the passing of time.
NextTimelapse ==
    \/ RegisterDevice
    \/ CreateDraft
    \/ NextUpload({"r1"})
    \/ Commit(SmallSnapshotInputs)
    \/ Query
    \/ Update
    \/ Publish

\* The server with alice's device registered and her draft ready to be committed:
\* both objects uploaded and both tokens marked.
InitDraftReady ==
    /\ nodeEnv = "development"
    /\ knownDevices = ("alice" :> [ownerId |-> "alice"])
    /\ uploadTokens =
          (<<"b1", "video">> :>
              [NewUploadToken("alice", ENCRYPTED_BUCKET, VideoKey("alice", "b1"),
                              "video/webm") EXCEPT !.uploaded = TRUE])
          @@ (<<"b1", "thumbnail">> :>
              [NewUploadToken("alice", ENCRYPTED_BUCKET, ThumbnailKey("alice", "b1"),
                              "image/jpeg") EXCEPT !.uploaded = TRUE])
    /\ draftTimelapses =
          ("d1" :> [ownerId |-> "alice", videoTokenId |-> <<"b1", "video">>,
                    thumbnailTokenId |-> <<"b1", "thumbnail">>])
    /\ timelapses = <<>>
    /\ snapshots = <<>>
    /\ s3 = { [bucket |-> ENCRYPTED_BUCKET, key |-> VideoKey("alice", "b1")],
              [bucket |-> ENCRYPTED_BUCKET, key |-> ThumbnailKey("alice", "b1")] }
    /\ s3Puts = [t \in FormTokens |-> 1]
    /\ response = ApiOkEmpty("registerDevice", "alice")
    /\ uploads = [r \in Requests |-> IF r = "r1" THEN [NoUpload EXCEPT !.status = 200]
                                      ELSE NoUpload]
    /\ issued = {"d1", "b1"}

\* Drafts committed with long snapshot arrays, and read back.
NextFrames ==
    \/ Commit(LargeSnapshotInputs)
    \/ Query

\* The way to a commit: a device, a draft, its uploads, the commit.
NextCommit ==
    \/ RegisterDevice
    \/ CreateDraft
    \/ NextUpload({"r1"})
    \/ Commit(SmallSnapshotInputs)

\* The life of a timelapse from its commit on.
NextPublish ==
    \/ Commit(SmallSnapshotInputs)
    \/ Query
    \/ Update
    \/ Publish

\* A commit among uploads that wipe the tokens past their expiry.
NextCleanup ==
    \/ RegisterDevice
    \/ CreateDraft
    \/ NextUpload({"r1"})
    \/ TokenExpires
    \/ CommitRead
    \/ CommitDevice
    \/ CommitCreate({<<20, 10>>})
    \/ CommitConsume

\* A timelapse is committed and synchronized with Hackatime, on two connections.
NextSync ==
    \/ Commit(SmallSnapshotInputs)
    \/ \E c \in SyncConnections :
          \/ SyncBegin(c)
          \/ SyncPush(c)
          \/ SyncUpdate(c)

\* A timelapse is committed, published, read and deleted.
NextDelete ==
    \/ Commit(SmallSnapshotInputs)
    \/ Publish
    \/ Query
    \/ Delete

\* Concurrent uploads on the tokens of a draft, while time passes.
NextUploads ==
    \/ CreateDraft
    \/ NextUpload(Requests)
    \/ TokenExpires

\* --------------------------------------------------- GET /api/auth-hackatime

\* The values generateState() may give.
OAuthStates == {"s1", "s2"}

\* A JSON string, and a JSON value that is not a string.
JsonString(x) == [type |-> "string", value |-> x]
JsonNumber == [type |-> "number", value |-> "1"]

\* auth-hackatime-init.ts lines 40-46: the cookie value,
\* encodeURIComponent(JSON.stringify({ state, codeVerifier })).
EncodeOAuthCookie(state, codeVerifier) ==
    [text |-> "uri-json",
     json |-> [state |-> <<JsonString(state)>>, codeVerifier |-> <<JsonString(codeVerifier)>>]]

\* What a request may carry as its hackatime-oauth cookie, besides what the
\* browser holds: nothing, an empty value, text that is not URI-encoded JSON, and
\* JSON objects without a codeVerifier, without a state, or with a state that is
\* not a string.
ForgedCookies ==
    { <<>>, <<[text |-> "empty"]>>, <<[text |-> "garbage"]>> }
    \cup { <<[text |-> "uri-json",
              json |-> [state |-> <<JsonString(st)>>, codeVerifier |-> <<>>]]>> :
            st \in OAuthStates }
    \cup { <<[text |-> "uri-json",
              json |-> [state |-> <<>>, codeVerifier |-> <<JsonString("v1")>>]]>>,
           <<[text |-> "uri-json",
              json |-> [state |-> <<JsonNumber>>, codeVerifier |-> <<JsonString("v1")>>]]>> }
    \cup { <<EncodeOAuthCookie(st, "v1")>> : st \in OAuthStates }

\* part_013 lines 94-115: the cookie is looked up, decoded, parsed and matched
\* against OAuthCookieSchema; <<>> stands for every way this ends in the redirect.
ParseOAuthCookie(cookie) ==
    IF cookie = <<>> THEN <<>>
    ELSE IF cookie[1].text # "uri-json" THEN <<>>
    ELSE LET json == cookie[1].json
         IN  IF json.state = <<>> \/ json.codeVerifier = <<>> THEN <<>>
             ELSE IF json.state[1].type # "string" \/ json.codeVerifier[1].type # "string"
             THEN <<>>
             ELSE <<[state |-> json.state[1].value,
                     codeVerifier |-> json.codeVerifier[1].value]>>

\* A comparison that accepts any state.
StateMatchesAlways(state, oauthData) == TRUE

\* part_013 line 117: state !== oauthData.state, negated.
StateMatches(state, oauthData) == state = oauthData.state

\* No callback has been handled.
NoCallback ==
    [method |-> "none", error |-> <<>>, code |-> <<>>, state |-> <<>>, cookie |-> <<>>,
     redirect |-> "none", exchanged |-> FALSE, userWrite |-> "none", authCookie |-> <<>>]

\* The request is answered with a redirect before anything was fetched or written.
Refused(request, target) ==
    [request EXCEPT !.redirect = target]

\* part_013 lines 84-120: the tests on the request; "" when it passes them all.
\* A query parameter is <<>> when absent and a one-element sequence when it is a
\* string; one that is given several times is an array, and is refused like an
\* absent one.
RequestRefusal(request) ==
    IF request.method # "GET" THEN "/?error=invalid-method"
    ELSE IF request.error # <<>> THEN "/?error=oauth-" \o request.error[1]
    ELSE IF Len(request.code) # 1 THEN "/?error=missing-code"
    ELSE IF Len(request.state) # 1 THEN "/?error=missing-state"
    ELSE IF ParseOAuthCookie(request.cookie) = <<>> THEN "/?error=oauth-state-mismatch"
    ELSE IF ~StateMatches(request.state[1], ParseOAuthCookie(request.cookie)[1])
    THEN "/?error=oauth-state-mismatch"
    ELSE ""

\* The user the callback signs in.
UserIdOf(hackatimeId) == <<"user", hackatimeId>>

\* auth-hackatime-init.ts lines 22-59: a state and a verifier are generated and
\* stored in the browser's cookie.
AuthHackatimeInit ==
    /\ \E state \in OAuthStates :
        oauthCookie' = <<EncodeOAuthCookie(state, "v1")>>
    /\ UNCHANGED <<oauthUsers, oauth>>
    /\ UNCHANGED outsideAuth

\* part_013 lines 122-295: the request passed the tests; the token is exchanged,
\* the profile is fetched, the user is found or created, the session cookie is set
\* and the hackatime-oauth cookie is cleared. Hackatime and Slack answer as they
\* will.
AuthHackatimeExchange(request) ==
    \E exchange \in {"throws", "refused", "malformed", "t1", "t2"},
       me \in {"malformed", "noEmail", "h1"}, picture \in BOOLEAN :
        LET asked == [request EXCEPT !.exchanged = TRUE]
        IN  IF exchange \in {"throws", "refused", "malformed"}
            THEN /\ oauth' = Refused(asked,
                                CASE exchange = "throws" -> "/?error=server-error"
                                  [] exchange = "refused" -> "/?error=token-exchange-failed"
                                  [] exchange = "malformed" -> "/?error=invalid-token-response")
                 /\ UNCHANGED <<oauthCookie, oauthUsers>>
            ELSE IF me \in {"malformed", "noEmail"}
            THEN /\ oauth' = Refused(asked,
                                IF me = "malformed" THEN "/?error=invalid-user-response"
                                ELSE "/?error=no-email")
                 /\ UNCHANGED <<oauthCookie, oauthUsers>>
            ELSE IF ~picture
            THEN /\ oauth' = Refused(asked, "/?error=no-profile-picture")
                 /\ UNCHANGED <<oauthCookie, oauthUsers>>
            ELSE /\ oauthUsers' = [h \in DOMAIN oauthUsers \cup {me} |->
                                      IF h = me
                                      THEN [id |-> UserIdOf(me), hackatimeAccessToken |-> exchange]
                                      ELSE oauthUsers[h]]
                 /\ oauth' = [asked EXCEPT
                                 !.redirect = "/?auth=success",
                                 !.userWrite = IF me \in DOMAIN oauthUsers THEN "updated"
                                               ELSE "created",
                                 !.authCookie = <<UserIdOf(me)>>]
                 /\ oauthCookie' = <<>>

\* part_013 lines 78-120: the callback. The request carries the browser's cookie
\* or one of its own making.
AuthHackatime ==
    /\ \E method \in {"GET", "POST"}, errorParam \in {<<>>, <<"access_denied">>},
          code \in {<<>>, <<"c1">>}, state \in {<<>>, <<"s1">>, <<"s2">>, <<"s1", "s1">>},
          cookie \in ForgedCookies \cup {oauthCookie} :
        LET request == [NoCallback EXCEPT !.method = method, !.error = errorParam,
                                          !.code = code, !.state = state, !.cookie = cookie]
        IN  IF RequestRefusal(request) # ""
            THEN /\ oauth' = Refused(request, RequestRefusal(request))
                 /\ UNCHANGED <<oauthCookie, oauthUsers>>
            ELSE AuthHackatimeExchange(request)
    /\ UNCHANGED outsideAuth

InitAuth ==
    /\ oauthCookie = <<>>
    /\ oauthUsers = <<>>
    /\ oauth = NoCallback

NextAuth ==
    \/ AuthHackatimeInit
    \/ AuthHackatime

\* ---------------------------------------------------------- specifications

Init == InitConcat /\ InitMerge /\ InitThumb /\ InitServer /\ InitFlight /\ InitAuth

\* videoConcat over every kind of track, with thin units.
SpecPaths == Init /\ [][NextPaths]_vars
\* videoConcat over every shape of unit stream, with few kinds of track.
SpecTiming == Init /\ [][NextTiming]_vars
\* videoConcat over sessions of evenly spaced units, up to ten units in each of two.
SpecScenario == Init /\ [][NextScenario]_vars
\* mergeVideoSessions over every stored order of chunks and every session key.
SpecMerge == Init /\ [][NextMerge]_vars
\* videoGenerateThumbnail over every outcome of every step of its three tiers.
SpecThumb == Init /\ [][NextThumb]_vars
\* The tRPC procedures called one after the other, with one upload connection.
SpecTimelapse == Init /\ [][NextTimelapse]_vars
\* A ready draft committed with long snapshot arrays.
InitFrames ==
    InitConcat /\ InitMerge /\ InitThumb /\ InitDraftReady /\ InitFlight /\ InitAuth
SpecFrames == InitFrames /\ [][NextFrames]_vars
\* Concurrent uploads on the tokens of a draft, while time passes.
SpecCommit == Init /\ [][NextCommit]_vars
SpecPublish == InitFrames /\ [][NextPublish]_vars
SpecCleanup == Init /\ [][NextCleanup]_vars
SpecSync == InitFrames /\ [][NextSync]_vars
SpecAuth == Init /\ [][NextAuth]_vars
SpecDelete == InitFrames /\ [][NextDelete]_vars
SpecUploads == Init /\ [][NextUploads]_vars

\* The whole module: any of the functions is called.
Next == NextPaths \/ NextMerge \/ NextThumb \/ NextTimelapse \/ TokenExpires
Spec == Init /\ [][Next]_vars

\* -------------------------------------------------------------- properties

\* The units added to the output for session k, in order.
UnitsOf(k) == SelectSeq(output, LAMBDA u : u.session = k)

\* The units session k's sink has yielded, without those of duration 0.
NonZero(k) == SelectSeq(yielded[k], LAMBDA u : u.duration # 0)

Finished == pc \in {"done", "failed"}

\* C1: for consecutive surviving sessions k and k+1 that both emitted a unit, the
\* first output timestamp of session k+1 is the last output timestamp of session k
\* plus that unit's rebased duration (no gap, no overlap).
C1_NoGapNoOverlap ==
    \A k \in 1..(Len(inputPrimaryTracks) - 1) :
        LET a == UnitsOf(k)
            b == UnitsOf(k + 1)
        IN  (a # <<>> /\ b # <<>>) =>
                b[1].timestamp = a[Len(a)].timestamp + a[Len(a)].duration

\* What the code does instead: the first unit of session k+1 starts where the last
\* unit of session k starts.
C1_CodeBehaviour ==
    \A k \in 1..(Len(inputPrimaryTracks) - 1) :
        LET a == UnitsOf(k)
            b == UnitsOf(k + 1)
        IN  (a # <<>> /\ b # <<>>) => b[1].timestamp = a[Len(a)].timestamp

\* The rebased timestamps handed to the source never decrease.
Monotone ==
    \A i \in 1..(Len(output) - 1) : output[i].timestamp <= output[i + 1].timestamp

\* The rebased ranges [timestamp, timestamp + duration) of two units of different
\* sessions do not overlap.
SessionsDisjoint ==
    \A i, j \in 1..Len(output) :
        output[i].session # output[j].session =>
            \/ output[i].timestamp + output[i].duration <= output[j].timestamp
            \/ output[j].timestamp + output[j].duration <= output[i].timestamp

\* C2: the rebased timestamps are non-decreasing over the whole run, and the
\* rebased time ranges of units of different sessions never overlap.
C2_MonotoneAndDisjoint == Monotone /\ SessionsDisjoint

\* C3: on every exit of videoConcat, by return or by throw, every input it opened
\* has been disposed.
C3_DisposedOnEveryExit ==
    Finished => \A i \in 1..Len(inputs) : inputs[i] = "disposed"

\* The five compared fields of a track.
Geometry(t) ==
    <<t.codec, t.codedWidth, t.codedHeight, t.displayWidth, t.displayHeight>>

AllMatchFirst ==
    \A k \in 1..Len(inputPrimaryTracks) :
        Geometry(inputPrimaryTracks[k].track) = Geometry(inputPrimaryTracks[1].track)

\* C4: once decided, remux is chosen iff every surviving track equals the first on
\* codec, coded width, coded height, display width and display height; otherwise
\* the transcode source with sizeChangeBehavior "contain" is; and every unit of the
\* run is added on the chosen path.
C4_RemuxIffAllMatch ==
    canRemux # <<>> =>
        /\ canRemux = <<AllMatchFirst>>
        /\ source.kind =
              IF AllMatchFirst THEN "EncodedVideoPacketSource" ELSE "VideoSampleSource"
        /\ ~AllMatchFirst => source.sizeChangeBehavior = "contain"
        /\ \A i \in 1..Len(output) :
              output[i].via =
                  IF AllMatchFirst THEN "EncodedPacketSink" ELSE "VideoSampleSink"

\* C4's case: a finished transcode run whose second session differs from the first
\* only in display height, both sessions having added units.
C4_Witness ==
    /\ pc = "done"
    /\ Len(inputPrimaryTracks) = 2
    /\ inputPrimaryTracks[1].track = BaseTrack
    /\ inputPrimaryTracks[2].track = [BaseTrack EXCEPT !.displayHeight = 720]
    /\ UnitsOf(1) # <<>>
    /\ UnitsOf(2) # <<>>
    /\ canRemux = <<FALSE>>

\* C6: the run throws the no-usable-sessions error exactly when every input lacked
\* a primary video track, and then nothing was written; otherwise the sessions
\* assembled are exactly the inputs that have a track, in input order.
C6_DropTracklessSessions ==
    (Len(inputs) > 0 /\ Len(probed) = Len(inputs)) =>
        /\ error = "NoUsableSessions" <=> \A i \in 1..Len(probed) : probed[i] = <<>>
        /\ error = "NoUsableSessions" => output = <<>>
        /\ Len(inputPrimaryTracks) =
              Cardinality({ i \in 1..Len(probed) : probed[i] # <<>> })
        /\ \A k \in 1..Len(inputPrimaryTracks) :
              /\ probed[inputPrimaryTracks[k].input] = <<inputPrimaryTracks[k].track>>
              /\ k > 1 => inputPrimaryTracks[k - 1].input < inputPrimaryTracks[k].input

\* C6's case: a run that dropped a track-less first input and finished with the
\* units of the other one.
C6_Witness ==
    /\ pc = "done"
    /\ Len(probed) = 2
    /\ probed[1] = <<>>
    /\ probed[2] # <<>>
    /\ UnitsOf(1) # <<>>

\* C7: a session whose track the environment cannot decode is dropped like a
\* track-less one: it is not among the surviving tracks that decide remuxing, it
\* adds no unit, and the run does not fail on it.
C7_UndecodableDropped ==
    /\ \A k \in 1..Len(inputPrimaryTracks) : inputPrimaryTracks[k].track.canDecode
    /\ \A i \in 1..Len(output) : inputPrimaryTracks[output[i].session].track.canDecode
    /\ error # "CannotDecode"

\* C8: on the remux path a session whose decoder configuration is null does not
\* abort the run.
C8_NoAbortOnMissingConfig ==
    ~(pc = "failed" /\ error = "NoDecoderConfig" /\ canRemux = <<TRUE>>)

\* The span of session k on the output timeline, had its units of duration 0 never
\* been there.
RefSpan(k) ==
    LET kept == NonZero(k)
    IN  IF kept = <<>> THEN 0
        ELSE Scaled(kept[Len(kept)].timestamp - kept[1].timestamp)

\* The offset of session k: the spans of the sessions before it.
RECURSIVE RefOffset(_)
RefOffset(k) == IF k <= 1 THEN 0 ELSE RefOffset(k - 1) + RefSpan(k - 1)

\* C9: a unit of duration 0 is never added, and the rebasing state is what it would
\* be had the unit not been in the session: localFirstTimestamp and
\* localLastTimestamp are those of the non-zero units read so far, every session's
\* offset is the sum of the earlier sessions' non-zero spans, and the units added
\* are the non-zero units, rebased from the first of them.
C9_ZeroDurationInert ==
    /\ \A i \in 1..Len(output) : output[i].duration # 0
    /\ \A k \in 1..Len(yielded) :
          LET added == UnitsOf(k)
              kept == NonZero(k)
              offset == RefOffset(k)
          IN  /\ Len(added) = Len(kept)
              /\ \A j \in 1..Len(kept) :
                    /\ added[j].origTimestamp = kept[j].timestamp
                    /\ added[j].duration = Scaled(kept[j].duration)
                    /\ added[j].timestamp =
                          Scaled(kept[j].timestamp - kept[1].timestamp) + offset
    /\ pc = "units" =>
          LET kept == NonZero(cur)
          IN  /\ localFirstTimestamp =
                    IF kept = <<>> THEN <<>> ELSE <<kept[1].timestamp>>
              /\ localLastTimestamp =
                    IF kept = <<>> THEN 0 ELSE kept[Len(kept)].timestamp
    /\ pc \in {"session", "units", "finalize", "done"} =>
          globalTimeOffset = RefOffset(cur)

IsZeroAt(k, i) == i \in 1..Len(yielded[k]) /\ yielded[k][i].duration = 0

\* C9's case: a finished run whose first session had a unit of duration 0 between
\* two units that were added, one at a later timestamp, and whose second session
\* added a unit after it.
C9_Witness ==
    /\ pc = "done"
    /\ Len(yielded) = 2
    /\ Len(yielded[1]) = 3
    /\ ~IsZeroAt(1, 1) /\ IsZeroAt(1, 2) /\ ~IsZeroAt(1, 3)
    /\ yielded[1][3].timestamp > yielded[1][1].timestamp
    /\ UnitsOf(2) # <<>>

\* C10: a run whose finalized buffer is empty (null, or holding no unit) throws;
\* it never returns.
C10_EmptyOutputFails ==
    (out = "finalized" /\ (buffer = "null" \/ output = <<>>)) =>
        (pc = "failed" /\ error = "BufferNull")

\* What the code does instead: only a null buffer throws.
C10_CodeBehaviour ==
    out = "finalized" => (buffer = "null" <=> (pc = "failed" /\ error = "BufferNull"))

\* Every chunk's data is in exactly one stream, exactly once, and a stream holds
\* the chunks of one session.
IsPartition ==
    /\ \A i \in 1..Len(chunks) :
          Cardinality({ <<k, j>> \in (1..Len(streams)) \X (1..Len(chunks)) :
                          j <= Len(streams[k]) /\ streams[k][j] = i }) = 1
    /\ \A k \in 1..Len(segmented) :
          /\ \A j \in 1..Len(segmented[k].chunks) :
                segmented[k].chunks[j].session = segmented[k].session
          /\ \A l \in 1..Len(segmented) : segmented[l].session = segmented[k].session => l = k

\* The chunks of every session are in ascending timestamp order.
ChunksAscending ==
    \A k \in 1..Len(segmented) :
        \A j \in 1..(Len(segmented[k].chunks) - 1) :
            segmented[k].chunks[j].timestamp <= segmented[k].chunks[j + 1].timestamp

\* The sessions are in the order of their first chunks' timestamps.
SessionsAscending ==
    \A k \in 1..(Len(segmented) - 1) :
        segmented[k].chunks[1].timestamp <= segmented[k + 1].chunks[1].timestamp

\* C5: what mergeVideoSessions hands to videoConcat is a partition of the chunks by
\* session, each session's chunks in ascending timestamp order, the sessions sorted
\* by the timestamp of their first chunk.
C5_SessionsGroupedAndSorted ==
    mpc # "idle" => (IsPartition /\ ChunksAscending /\ SessionsAscending)

\* What the code does: the partition and the order inside each session.
C5_CodeBehaviour ==
    mpc # "idle" => (IsPartition /\ ChunksAscending)

\* C11: videoGenerateThumbnail never throws, and what it returns is a blob of type
\* image/jpeg, whatever the primary tier, the fallback tier and the encoding of
\* the last resort's canvas do; a call that has not returned can take a step.
C11_AlwaysReturnsJpeg ==
    /\ thumbnail # <<>> =>
          /\ thumbnail[1].kind = "return"
          /\ thumbnail[1].blob.type = "image/jpeg"
    /\ tpc = "done" <=> thumbnail # <<>>
    /\ tpc \notin {"idle", "done"} => ENABLED NextThumb

\* C11's case: the primary and the fallback tier failed and the last resort's
\* canvas could not be encoded; the call returned all the same.
C11_Witness ==
    /\ tpc = "done"
    /\ Len(tiers) = 3
    /\ tiers[1].outcome = "failed"
    /\ tiers[2].outcome = "failed"
    /\ thumbnail[1].kind = "return"
    /\ thumbnail[1].blob.content = "empty"

TierOrder == <<"primary", "fallback", "black">>

\* C12: the tiers start in the order primary, fallback, last resort; a tier starts
\* only after every earlier one failed, none starts after one succeeded, and the
\* blob returned is the one of the tier that succeeded.
C12_TiersInOrder ==
    /\ Len(tiers) <= 3
    /\ \A i \in 1..Len(tiers) :
          /\ tiers[i].tier = TierOrder[i]
          /\ i < Len(tiers) => tiers[i].outcome = "failed"
    /\ (thumbnail # <<>> /\ thumbnail[1].kind = "return") =>
          /\ tiers[Len(tiers)].outcome = "ok"
          /\ thumbnail[1].blob.tier = tiers[Len(tiers)].tier
    /\ (tiers # <<>> /\ tiers[Len(tiers)].outcome # "running") => tpc = "done"

\* C12's case: the primary tier failed on a video whose frame it had, the fallback
\* tier returned a frame, and the last resort never started.
C12_Witness ==
    /\ tpc = "done"
    /\ thumbCanvas # "none"
    /\ tiers = <<[tier |-> "primary", outcome |-> "failed"],
                 [tier |-> "fallback", outcome |-> "ok"]>>
    /\ thumbnail[1].blob.tier = "fallback"
    /\ thumbnail[1].blob.content = "frame"

\* C13: in a run with one surviving session that added a unit, the output duration
\* (end of the last unit added minus start of the first) is (lastTimestamp -
\* firstTimestamp) * timeScale, to within the rebased duration of one unit, the
\* last one.
C13_SingleSessionDuration ==
    (Len(inputPrimaryTracks) = 1 /\ output # <<>>) =>
        LET first == output[1]
            last == output[Len(output)]
            duration == (last.timestamp + last.duration) - first.timestamp
            expected == Scaled(last.origTimestamp - first.origTimestamp)
        IN  /\ duration - expected >= 0
            /\ duration - expected <= last.duration

\* C13's case: a finished run of one surviving session that added three units or
\* more, the last at least two ticks after the first.
C13_Witness ==
    /\ pc = "done"
    /\ Len(inputPrimaryTracks) = 1
    /\ Len(output) >= 3
    /\ output[Len(output)].origTimestamp >= output[1].origTimestamp + 2

\* n units of output time, as a numerator over TimeScaleDen.
OutputTime(n) == n * TimeScaleDen

\* Session k yielded exactly ten units, each one frame length after the other.
TenSpaced(k) ==
    /\ Len(yielded[k]) = 10
    /\ \A i \in 1..9 :
          yielded[k][i + 1].timestamp - yielded[k][i].timestamp
              = TIMELAPSE_FRAME_LENGTH_MS

\* C14: with a frame length of 2500 and 24 frames per second, in a run of two
\* sessions of ten units spaced 2500 apart, globalTimeOffset is 375 units of output
\* time after the first session and 750 after the second, the whole timeline.
C14_ScenarioA ==
    (TIMELAPSE_FRAME_LENGTH_MS = 2500 /\ TIMELAPSE_FPS = 24
        /\ Len(inputPrimaryTracks) = 2 /\ cur >= 2 /\ TenSpaced(1)) =>
        /\ cur = 2 => globalTimeOffset = OutputTime(375)
        /\ (cur = 3 /\ TenSpaced(2)) => globalTimeOffset = OutputTime(750)

\* C14's case: the run of two sessions of ten units each has finished.
C14_Witness ==
    /\ pc = "done"
    /\ Len(inputPrimaryTracks) = 2
    /\ TenSpaced(1)
    /\ TenSpaced(2)
    /\ Len(output) = 20

\* C15: on a timelapse of zero chunks mergeVideoSessions throws its empty-input
\* error, and has then built no stream, opened no input, created no output and
\* processed no unit: videoConcat was never called.
C15_EmptyTimelapseFails ==
    (mpc # "idle" /\ chunks = <<>>) =>
        /\ mpc = "failed"
        /\ merror = "EmptyInput"
        /\ segmented = <<>>
        /\ streams = <<>>
        /\ pc = "idle"
        /\ inputs = <<>>
        /\ out = "none"
        /\ output = <<>>

\* C15's case: mergeVideoSessions was called on a timelapse without chunks and
\* has ended.
C15_Witness ==
    /\ chunks = <<>>
    /\ mpc = "failed"

\* The caller of the last call is the owner of the timelapse, or of the staff.
IsStaff(caller) == caller # "anonymous" /\ PermissionLevel(caller) \in {"ADMIN", "ROOT"}

\* The last call was timelapse.query on a timelapse that exists and is not
\* published, by a caller other than its owner.
QueriedUnpublishedByOther(id) ==
    /\ response.proc = "query"
    /\ id \in DOMAIN timelapses
    /\ ~timelapses[id].isPublished
    /\ response.caller # timelapses[id].ownerId

SnapshotsOf(id) == SelectSeq(snapshots, LAMBDA row : row.timelapseId = id)

\* The rows are numbered 0..n-1, each number once, in the order of their timestamps.
NumberedFromZero(rows, n) ==
    /\ Len(rows) = n
    /\ \A k \in 0..(n - 1) :
          Cardinality({ i \in 1..Len(rows) : rows[i].frame = k }) = 1
    /\ \A i, j \in 1..Len(rows) :
          rows[i].frame < rows[j].frame => rows[i].createdAt <= rows[j].createdAt

\* The number of timestamps that were submitted for the timelapse (part_005 line 461).
Submitted(id) == timelapses[id].duration \div TIMELAPSE_FRAME_LENGTH_MS

\* C17: after timelapse.commit of N timestamps, for any N, the stored snapshots of
\* the timelapse carry the frame numbers 0..N-1, each exactly once, the k-th
\* smallest timestamp as frame k.
C17_FramesNumberedFromZero ==
    \A id \in DOMAIN timelapses : NumberedFromZero(SnapshotsOf(id), Submitted(id))

\* What the code does: that, as long as N is no more than one batch.
C17_CodeBehaviour ==
    \A id \in DOMAIN timelapses :
        Submitted(id) <= SNAPSHOT_BATCH_SIZE =>
            NumberedFromZero(SnapshotsOf(id), Submitted(id))

\* C18: a timelapse.commit answers NOT_FOUND when the caller owns no such draft and
\* NO_FILE when the draft's video or thumbnail token is not marked uploaded; and a
\* commit that answers an error (these, or DEVICE_NOT_FOUND) creates no timelapse
\* and no snapshot, keeps the draft and keeps the upload tokens.
C18_FailedCommitChangesNothing ==
    [][Commit(SmallSnapshotInputs) =>
        /\ \A id \in DraftIds :
              LET owned == /\ id \in DOMAIN draftTimelapses
                           /\ draftTimelapses[id].ownerId = response'.caller
              IN  /\ ~owned => response'.error = "NOT_FOUND"
                  /\ (owned /\ (~uploadTokens[draftTimelapses[id].videoTokenId].uploaded
                                \/ ~uploadTokens[draftTimelapses[id].thumbnailTokenId].uploaded))
                        => response'.error = "NO_FILE"
        /\ ~response'.ok =>
              /\ response'.error \in {"NOT_FOUND", "NO_FILE", "DEVICE_NOT_FOUND",
                                      "NO_PERMISSION"}
              /\ UNCHANGED <<timelapses, snapshots, draftTimelapses, uploadTokens, s3>>
    ]_vars

\* C18's case: alice's commit was answered NO_FILE because the thumbnail, unlike
\* the video, has not been uploaded; the draft and its tokens are there.
C18_Witness ==
    /\ response.proc = "commit"
    /\ response.error = "NO_FILE"
    /\ "d1" \in DOMAIN draftTimelapses
    /\ uploadTokens[draftTimelapses["d1"].videoTokenId].uploaded
    /\ ~uploadTokens[draftTimelapses["d1"].thumbnailTokenId].uploaded
    /\ timelapses = <<>>

\* C19: whatever the order and interleaving of the requests that carry a token, at
\* most one of them writes the token's object to S3.
C19_AtMostOneUploadPerToken ==
    \A t \in FormTokens : s3Puts[t] <= 1

\* The fields that publishing is said to freeze.
Frozen(timelapse) ==
    <<timelapse.name, timelapse.description, timelapse.visibility, timelapse.isPublished>>

\* C20: once a timelapse is published, no timelapse.update and no
\* timelapse.publish changes its name, description, visibility or isPublished, and
\* a publish by a caller allowed to publish it answers ALREADY_PUBLISHED.
C20_PublishedIsImmutable ==
    [][(Update \/ Publish) =>
        \A id \in DOMAIN timelapses :
            timelapses[id].isPublished =>
                /\ id \in DOMAIN timelapses'
                /\ Frozen(timelapses'[id]) = Frozen(timelapses[id])
                /\ (response'.proc = "publish"
                      /\ (response'.caller = timelapses[id].ownerId
                            \/ IsStaff(response'.caller)))
                      => response'.error = "ALREADY_PUBLISHED"
    ]_vars

\* What the code does: timelapse.publish leaves a published timelapse as it is.
C20_CodeBehaviour ==
    [][Publish =>
        \A id \in DOMAIN timelapses :
            timelapses[id].isPublished =>
                /\ timelapses'[id] = timelapses[id]
                /\ (response'.caller = timelapses[id].ownerId \/ IsStaff(response'.caller))
                      => response'.error = "ALREADY_PUBLISHED"
    ]_vars

\* A tier after the primary one has started, or the call is over.
PrimaryTierOver == Len(tiers) >= 2 \/ tpc = "done"

\* The fallback tier holds its handles only while it is the tier that runs.
FallbackReleased ==
    fallbackHandles = "held" =>
        (tpc \in {"fallbackLoad", "fallbackEncode"} /\ tiers[Len(tiers)].tier = "fallback")

\* C25: every thumbnail tier has released what it acquired before the next tier
\* starts or the result is returned: makeThumbnail's input is disposed on every
\* exit of makeThumbnail, and makeFallbackThumbnail's object URL, video and canvas
\* are released on every exit of makeFallbackThumbnail.
C25_TiersReleaseResources ==
    /\ (tpc # "idle" /\ PrimaryTierOver) => thumbInput = "disposed"
    /\ FallbackReleased

\* What the code does: the fallback tier always releases its handles, and the
\* input is disposed exactly when makeThumbnail got as far as encoding a canvas.
C25_CodeBehaviour ==
    /\ FallbackReleased
    /\ (tpc # "idle" /\ PrimaryTierOver) => (thumbInput = "disposed" <=> thumbCanvas # "none")

\* The units of session k that have a duration, in the order the sink yielded
\* them, as they are expected in the output.
ForwardedOf(k) ==
    LET kept == SelectSeq(yielded[k], LAMBDA u : u.duration # 0)
    IN  [i \in 1..Len(kept) |->
            [session |-> k, origTimestamp |-> kept[i].timestamp,
             duration |-> Scaled(kept[i].duration)]]

RECURSIVE ForwardedUpTo(_)
ForwardedUpTo(n) == IF n = 0 THEN <<>> ELSE ForwardedUpTo(n - 1) \o ForwardedOf(n)

\* The output, reduced to where each unit came from.
OutputOrigins ==
    [i \in 1..Len(output) |->
        [session |-> output[i].session, origTimestamp |-> output[i].origTimestamp,
         duration |-> output[i].duration]]

\* The offset that was added to an output unit, up to its session's first timestamp.
OffsetOf(unit) == unit.timestamp - Scaled(unit.origTimestamp)

\* C26: the units added to the output are, in session order, each surviving
\* session's units of non-zero duration in the order the sink yielded them;
\* sessions are taken in the order of the inputs, no unit of a later session
\* comes before a unit of an earlier one, and all units of one session are
\* shifted by one and the same offset.
C26_SessionsInOrder ==
    /\ \A k, l \in 1..Len(inputPrimaryTracks) :
          k < l => inputPrimaryTracks[k].input < inputPrimaryTracks[l].input
    /\ OutputOrigins = ForwardedUpTo(Len(yielded))
    /\ \A i, j \in 1..Len(output) :
          /\ i < j => output[i].session <= output[j].session
          /\ output[i].session = output[j].session => OffsetOf(output[i]) = OffsetOf(output[j])
    /\ \A k \in 1..Len(yielded) : (k > cur) => yielded[k] = <<>>

\* C26's case: a run over two sessions is done; units of both are in the output
\* and a unit without duration was passed over.
C26_Witness ==
    /\ pc = "done"
    /\ Len(output) >= 3
    /\ output[1].session = 1
    /\ output[Len(output)].session = 2
    /\ \E i \in 1..Len(yielded[1]) : yielded[1][i].duration = 0

\* A codec has been negotiated.
Negotiated == videoCodec \notin {"unset", "null"}

\* C28: the encoder codec is negotiated before the choice between remuxing and
\* transcoding: a run that finds no encodable codec throws before out.start(),
\* before the choice and before any unit is read, whether or not the surviving
\* sessions could be remuxed; and a run that made the choice, or reached the
\* loop over the sessions, has a negotiated codec.
C28_NegotiatesBeforeClassifying ==
    /\ error = "NoEncodableCodec" =>
          /\ pc = "failed"
          /\ videoCodec = "null"
          /\ out = "created"
          /\ canRemux = <<>>
          /\ source.kind = "none"
          /\ decoderConfigs = <<>>
          /\ output = <<>>
          /\ \A k \in 1..Len(yielded) : yielded[k] = <<>>
    /\ videoCodec = "null" => error = "NoEncodableCodec"
    /\ (canRemux # <<>> \/ out \in {"started", "finalized"} \/ decoderConfigs # <<>>
          \/ pc \in {"classify", "session", "units", "finalize", "done"}) => Negotiated

\* C28's case: two sessions that could be remuxed, and the run has thrown
\* because no codec can be encoded.
C28_Witness ==
    /\ error = "NoEncodableCodec"
    /\ Len(inputPrimaryTracks) = 2
    /\ CanRemux(inputPrimaryTracks)

\* Request r is about to call markUploadTokenUploaded on a token of its user that
\* is marked uploaded.
MarksUploadedToken(r) ==
    /\ uploads[r].pc = "mark"
    /\ uploads[r].tokenId[1] \in DOMAIN uploadTokens
    /\ uploadTokens[uploads[r].tokenId[1]].ownerId = uploads[r].user
    /\ uploadTokens[uploads[r].tokenId[1]].uploaded

\* C23: markUploadTokenUploaded, called on a token of the caller that is already
\* marked uploaded, succeeds and leaves the token as it is, also when the token's
\* expiry time has passed since it was marked.
C23_MarkIsIdempotent ==
    [][\A r \in Requests :
          (UploadMark(r) /\ MarksUploadedToken(r)) =>
              (uploads'[r].status = 200 /\ uploadTokens' = uploadTokens)
    ]_vars

\* What the code does: that, for a token that has not expired; the call on an
\* expired token fails, whether the token is marked or not, and changes nothing.
C23_CodeBehaviour ==
    [][\A r \in Requests :
          (UploadMark(r) /\ MarksUploadedToken(r)) =>
              /\ uploadTokens' = uploadTokens
              /\ uploads'[r].status =
                    IF uploadTokens[uploads[r].tokenId[1]].expired THEN 400 ELSE 200
    ]_vars

\* The timelapse.delete call on id by caller is one that deleteTimelapse refuses.
DeleteRefused(id, caller) ==
    id \notin DOMAIN timelapses \/ ~CanDelete(caller, timelapses[id])

\* C27: timelapse.delete answers ok = true only if the timelapse was deleted; a
\* call that deleteTimelapse refuses, the timelapse not being there or the caller
\* being neither its owner nor ADMIN or ROOT, deletes nothing from the database
\* or S3 and answers an error.
C27_DeleteOkOnlyIfDeleted ==
    [][Delete =>
        /\ response'.ok => \E id \in DOMAIN timelapses : id \notin DOMAIN timelapses'
        /\ \A id \in DraftIds :
              DeleteRefused(id, response'.caller) =>
                  (~response'.ok /\ UNCHANGED <<timelapses, snapshots, s3>>)
    ]_vars

\* What the code does: a refused call deletes nothing and answers ok = true; a
\* call that is not refused answers ok = true exactly when the timelapse is gone.
C27_CodeBehaviour ==
    [][Delete =>
        \A id \in DraftIds :
            IF DeleteRefused(id, response'.caller)
            THEN response'.ok /\ UNCHANGED <<timelapses, snapshots, s3>>
            ELSE response'.ok <=> id \notin DOMAIN timelapses'
    ]_vars

\* The video object of the timelapse, in the bucket that isPublished designates.
DesignatedVideo(timelapse) ==
    [bucket |-> BucketOf(timelapse.isPublished), key |-> timelapse.s3Key]

\* C29: whatever timelapse.publish does, also when one of its steps fails, the
\* video object of every timelapse is in the bucket that its isPublished flag
\* designates.
C29_VideoWhereTheFlagSays ==
    \A id \in DOMAIN timelapses : DesignatedVideo(timelapses[id]) \in s3

\* What the code does: the video object is in one of the two buckets.
C29_CodeBehaviour ==
    \A id \in DOMAIN timelapses :
        \E bucket \in {ENCRYPTED_BUCKET, PUBLIC_BUCKET} :
            [bucket |-> bucket, key |-> timelapses[id].s3Key] \in s3

\* The S3 object a token stands for.
ObjectOf(token) == [bucket |-> token.bucket, key |-> token.key]

\* A timelapse in the bucket's state of publication has the token's key as its
\* video or as its thumbnail.
UsedByTimelapse(token) ==
    \E id \in DOMAIN timelapses :
        /\ timelapses[id].isPublished = (token.bucket = PUBLIC_BUCKET)
        /\ token.key \in {timelapses[id].s3Key} \cup
              { timelapses[id].thumbnailS3Key[i] : i \in 1..Len(timelapses[id].thumbnailS3Key) }

\* Request r arrives in production and the tokens past their expiry are wiped.
WipesStaleTokens(r) ==
    /\ uploads[r].pc = "idle"
    /\ uploads'[r].pc = "parse"
    /\ nodeEnv' = "production"

C30_CommittedDataSurvivesCleanup ==
    \A id \in DOMAIN timelapses :
        /\ [bucket |-> ENCRYPTED_BUCKET, key |-> timelapses[id].s3Key] \in s3
        /\ \A i \in 1..Len(timelapses[id].thumbnailS3Key) :
              [bucket |-> ENCRYPTED_BUCKET, key |-> timelapses[id].thumbnailS3Key[i]] \in s3

\* What the code does: once the timelapse is created, the wipe spares the data it
\* refers to; a timelapse whose objects are missing lost them before it was created.
C30_CodeBehaviour ==
    [][\A id \in DOMAIN timelapses :
          \A key \in {timelapses[id].s3Key} \cup
                     { timelapses[id].thumbnailS3Key[i] :
                          i \in 1..Len(timelapses[id].thumbnailS3Key) } :
              [bucket |-> ENCRYPTED_BUCKET, key |-> key] \in s3 =>
                  [bucket |-> ENCRYPTED_BUCKET, key |-> key] \in s3'
    ]_vars

\* The pushes of heartbeats whose call went on to set hackatimeProject.
CompletedPushes(id) ==
    { i \in 1..Len(heartbeatPushes) :
        heartbeatPushes[i].timelapse = id /\ heartbeatPushes[i].completed }

\* C21: timelapse.syncWithHackatime takes effect once per timelapse: at most one
\* call pushes heartbeats and sets hackatimeProject, and once hackatimeProject is
\* set no call is past the test that answers HACKATIME_ERROR, about to push
\* heartbeats or to change snapshots.
C21_SyncOnlyOnce ==
    \A id \in DOMAIN timelapses :
        /\ Cardinality(CompletedPushes(id)) <= 1
        /\ timelapses[id].hackatimeProject # <<>> =>
              \A c \in SyncConnections :
                  syncs[c].pc \in {"push", "update"} => syncs[c].id # id

\* What the code does: a call that starts once hackatimeProject is set ends at
\* its first test and pushes nothing.
C21_CodeBehaviour ==
    [][\A c \in SyncConnections :
          (syncs[c].pc = "idle"
             /\ \A id \in DraftIds :
                   id \in DOMAIN timelapses /\ timelapses[id].hackatimeProject # <<>>)
          => /\ syncs'[c].pc = "idle"
             /\ Len(heartbeatPushes') > Len(heartbeatPushes) =>
                   heartbeatPushes'[Len(heartbeatPushes')].connection # c
    ]_vars

\* The callback was handled with a hackatime-oauth cookie that is missing or
\* malformed, or whose state is not the state query parameter.
HandledWithBadCookie ==
    /\ oauth.method # "none"
    /\ \/ ParseOAuthCookie(oauth.cookie) = <<>>
       \/ <<ParseOAuthCookie(oauth.cookie)[1].state>> # oauth.state

\* Nothing was asked of Hackatime, no user was written and no session was given.
NothingGranted ==
    /\ ~oauth.exchanged
    /\ oauth.userWrite = "none"
    /\ oauth.authCookie = <<>>

\* C22: when the hackatime-oauth cookie is missing, malformed, or carries a state
\* other than the state query parameter, the callback redirects to
\* /?error=oauth-state-mismatch, exchanges no token, writes no user and sets no
\* lapse-auth cookie.
C22_BadCookieIsStateMismatch ==
    HandledWithBadCookie =>
        /\ oauth.redirect = "/?error=oauth-state-mismatch"
        /\ NothingGranted

\* C22, as the code behaves: with such a cookie nothing is exchanged, written or
\* granted, and the redirect is to /?error=oauth-state-mismatch when the request
\* is a GET with a code and a state and without an error parameter; a request that
\* fails one of those earlier tests is redirected to that test's error instead.
C22_CodeBehaviour ==
    HandledWithBadCookie =>
        /\ NothingGranted
        /\ oauth.redirect \in {"/?error=invalid-method", "/?error=oauth-access_denied",
                                "/?error=missing-code", "/?error=missing-state",
                                "/?error=oauth-state-mismatch"}
        /\ (oauth.method = "GET" /\ oauth.error = <<>>
               /\ Len(oauth.code) = 1 /\ Len(oauth.state) = 1)
            => oauth.redirect = "/?error=oauth-state-mismatch"

\* A well-formed cookie whose state is not the one in the query was refused.
C22_Witness ==
    /\ oauth.method = "GET"
    /\ oauth.error = <<>>
    /\ oauth.code = <<"c1">>
    /\ oauth.state = <<"s1">>
    /\ ParseOAuthCookie(oauth.cookie) # <<>>
    /\ ParseOAuthCookie(oauth.cookie)[1].state = "s2"
    /\ oauth.redirect = "/?error=oauth-state-mismatch"

====
